---- MODULE Spec2Model ----
(***************************************************************************)
(* Model of the GitHub-to-Confluence publisher: the upsert resolver        *)
(* (pagesController.createPage and its helpers), the differential          *)
(* reconciler (cleanupOrphanPages, searchPages, deletePages), the fan-out  *)
(* scheduler (pagesPublisher.publishFolder) and the driving script         *)
(* (main.py).  The remote page store is the environment: every HTTP        *)
(* request is answered with one of the answers the store can give in the   *)
(* current state, a failed request included.                               *)
(*                                                                         *)
(* Strings that the code inspects (titles, paths, error messages) are      *)
(* sequences: titles and paths are sequences of one-character strings,     *)
(* error messages are sequences of words.                                  *)
(***************************************************************************)
EXTENDS Integers, Sequences, FiniteSets, TLC

VARIABLES
    pages,      \* remote store: page id -> [title, version, parent, content]
    nextId,     \* remote store: the id the next created page gets
    callers,    \* SpecUpsert: per client, the createPage call in progress
    last,       \* SpecUpsert: the createPage call that returned most recently
    ncalls,     \* SpecUpsert: createPage calls issued so far
    sp,         \* the searchPages call in progress
    dp,         \* the deletePages call in progress
    rc,         \* the cleanupOrphanPages call in progress
    mainpc,     \* main.py: where the script is
    fs,         \* the local tree: its entries and the path separator
    run,        \* publishFolder: the root call and its worker pool
    stack,      \* publishFolder: the frames of the recursive calls
    up,         \* per local entry, the createPage call made for it
    task,       \* per local file, the pool task that processes it
    queue,      \* the pool: tasks submitted and not started
    stats,      \* _stats, the PublishStats instance
    pool,       \* publishFolder: the worker pools created and shut down
    agg,        \* SpecStats: the threads calling _stats and its lock
    walk,       \* SpecExpected: the buildExpectedPagesSet call and its result
    trip        \* SpecRoundTrip: a title taken through createPage and cleanupOrphanPages

vars == <<pages, nextId, callers, last, ncalls, sp, dp, rc, mainpc,
          fs, run, stack, up, task, queue, stats, pool, agg, walk, trip>>
upsertVars == <<callers, last, ncalls>>
reconcileVars == <<sp, dp, rc>>
publishVars == <<fs, run, stack, up, task, queue, stats, pool, agg, walk, trip>>

----------------------------------------------------------------------------
(* Bounds of the model *)

MaxCalls == 2        \* createPage calls issued in a behaviour of SpecUpsert
MaxRemote == 5       \* managed pages in the store when a reconcile starts
MaxEntries == 4      \* entries of the local tree that publishFolder walks
MaxStatCalls == 3    \* calls of add_success and add_error in SpecStats
MaxWalkEntries == 5  \* entries of the local tree that buildExpectedPagesSet walks
MaxTitleLen == 3     \* characters of a canonical title in SpecRoundTrip

----------------------------------------------------------------------------
(* Generic helpers on sequences *)

RECURSIVE SeqToSet(_)
SeqToSet(s) == IF s = <<>> THEN {} ELSE {Head(s)} \cup SeqToSet(Tail(s))

\* sub occurs in s at position i (1-based)
OccursAt(s, sub, i) ==
    /\ i >= 1
    /\ i + Len(sub) - 1 <= Len(s)
    /\ \A k \in 1..Len(sub) : s[i + k - 1] = sub[k]

\* Python's `sub in s`
Contains(s, sub) == \E i \in 1..(Len(s) + 1) : OccursAt(s, sub, i)

----------------------------------------------------------------------------
(* Configuration (config.getconfig) and ids *)

NoneId == 0               \* Python None where a page id is expected
ConfigParentPageId == 1   \* CONFIG["confluence_parent_page_id"]
SearchPattern == <<"#">>  \* CONFIG["confluence_search_pattern"]
Banner == <<"banner">>    \* the auto-generation banner createPage prepends

\* createPage line 176 / findPageByTitle line 83: title + "  " + pattern
FullTitle(title) == title \o <<" ", " ">> \o SearchPattern

FullContent(content) == Banner \o content

----------------------------------------------------------------------------
(* The remote page store (environment) *)

PageIdsWithTitle(pg, fullTitle) == {id \in DOMAIN pg : pg[id].title = fullTitle}

\* id lies below ancestor anc in the page hierarchy (CQL ancestor=)
RECURSIVE IsUnder(_, _, _)
IsUnder(pg, id, anc) ==
    IF id \notin DOMAIN pg THEN FALSE
    ELSE IF pg[id].parent = anc THEN TRUE
    ELSE IsUnder(pg, pg[id].parent, anc)

\* CQL: title="<fullTitle>" AND ancestor=<anc> AND space=<space>
SearchMatches(pg, fullTitle, anc) ==
    {id \in PageIdsWithTitle(pg, fullTitle) : IsUnder(pg, id, anc)}

\* the parent id the requests carry: the configured root for None
ParentIdToUse(parentPageID) ==
    IF parentPageID = NoneId THEN ConfigParentPageId ELSE parentPageID

\* error messages of the store, as sequences of words
DupMessages == { <<"A", "page", "with", "this", "title", "Already", "Exists">>,
                 <<"Page", "with", "the", "Same", "Title", "found">> }
OtherMessages == { <<"Parent", "page", "not", "found">> }
UpdateMessages == { <<"Version", "conflict">> }

LowerWord(w) ==
    CASE w = "Already" -> "already"
      [] w = "Exists"  -> "exists"
      [] w = "Same"    -> "same"
      [] w = "Title"   -> "title"
      [] w = "A"       -> "a"
      [] w = "Page"    -> "page"
      [] w = "Parent"  -> "parent"
      [] w = "Version" -> "version"
      [] OTHER         -> w

\* str.lower()
Lower(msg) == [i \in 1..Len(msg) |-> LowerWord(msg[i])]

----------------------------------------------------------------------------
(* Results of createPage / updatePage / createNewPage *)

NoResult ==
    [raised |-> FALSE, success |-> FALSE, page_id |-> NoneId, operation |-> "none",
     error |-> <<>>, status_code |-> "absent"]

Succeeded(pageId, op) ==
    [raised |-> FALSE, success |-> TRUE, page_id |-> pageId, operation |-> op,
     error |-> <<>>, status_code |-> "200"]

Failed(msg, status) ==
    [raised |-> FALSE, success |-> FALSE, page_id |-> NoneId, operation |-> "none",
     error |-> msg, status_code |-> status]

\* an exception leaves the call instead of a result
Raised ==
    [raised |-> TRUE, success |-> FALSE, page_id |-> NoneId, operation |-> "none",
     error |-> <<"exception">>, status_code |-> "absent"]

NoPage == [id |-> NoneId, version |-> 0]

Req(op, arg, res) == [op |-> op, arg |-> arg, res |-> res]

----------------------------------------------------------------------------
(* The upsert resolver: one createPage call as a state machine whose steps  *)
(* are the HTTP requests it issues.                                         *)

IdleCall ==
    [pc |-> "idle", title |-> <<>>, content |-> <<>>, parent |-> NoneId,
     attempt |-> 0, found |-> NoPage, createErr |-> NoResult,
     result |-> NoResult, log |-> <<>>, faulted |-> FALSE]

\* createPage lines 169-185: entry, up to the first search request
BeginCall(title, content, parent) ==
    [IdleCall EXCEPT !.pc = "search", !.title = title, !.content = content,
                     !.parent = parent]

max_retries == 3

\* mutant: the wait grows by one second per retry
RetryDelayLinear(attempt) == attempt

\* line 93: retry_delays = [0, 2, 4]
RetryDelay(attempt) == CASE attempt = 0 -> 0 [] attempt = 1 -> 2 [] OTHER -> 4

\* line 380: time.sleep(3)
DirectRetryDelay == 3

\* what a step of a call leaves behind: the call, the store, the next page id
Out(r, pg, nid) == [r |-> r, pages |-> pg, nextId |-> nid]

(* ---- findPageByTitle: one iteration of the retry loop ---- *)

\* the answers the search endpoint can give: an error, an empty result (the
\* page does not exist or the index lags), the page with its version, or the
\* page without a version, followed by the answer of the page-details request
SearchAnswers(r, pg) ==
    LET m == SearchMatches(pg, FullTitle(r.title), ParentIdToUse(r.parent))
    IN  {[kind |-> "err", id |-> NoneId], [kind |-> "empty", id |-> NoneId]}
        \cup {[kind |-> k, id |-> id] :
                 k \in {"hit", "hitFetchOk", "hitFetchFail", "hitFetchRaise"}, id \in m}

\* the search found no page, or the request (or the page-details request that
\* follows it, lines 125-130) failed: lines 143-161 treat them alike
NotFound(ans) == ans.kind \in {"err", "empty", "hitFetchRaise"}

SearchLog(r, ans) ==
    r.log
    \o (IF r.attempt > 0 THEN <<Req("sleep", RetryDelay(r.attempt), "ok")>> ELSE <<>>)
    \o <<Req("search", r.attempt, IF NotFound(ans) THEN "none" ELSE "found")>>

\* lines 152-161: the request was answered with an error status, or it (or
\* the page-details request) raised: 1, else 0
SearchError(ans) == IF ans.kind \in {"err", "hitFetchRaise"} THEN 1 ELSE 0

\* mutant: a search error on the last attempt ends the call with a failure
findPageByTitleStrict(r, pg, ans) ==
    IF ~NotFound(ans)
    THEN [r EXCEPT !.pc = "update",
                   !.found = [id |-> ans.id,
                              version |-> IF ans.kind = "hitFetchFail"
                                          THEN 1 ELSE pg[ans.id].version],
                   !.faulted = @ \/ ans.kind = "hitFetchFail",
                   !.log = SearchLog(r, ans)]
    ELSE IF r.attempt < max_retries - 1
    THEN [r EXCEPT !.attempt = @ + 1, !.log = SearchLog(r, ans)]
    ELSE IF SearchError(ans) = 1
    THEN [r EXCEPT !.pc = "done", !.attempt = 0, !.log = SearchLog(r, ans)]
    ELSE [r EXCEPT !.pc = "create", !.attempt = 0, !.log = SearchLog(r, ans)]

findPageByTitle(r, pg, ans) ==
    IF ~NotFound(ans)
    THEN \* lines 111-142: found, return the page
         [r EXCEPT !.pc = "update",
                   !.found = [id |-> ans.id,
                              version |-> IF ans.kind = "hitFetchFail"
                                          THEN 1 ELSE pg[ans.id].version],
                   !.faulted = @ \/ ans.kind = "hitFetchFail",
                   !.log = SearchLog(r, ans)]
    ELSE IF r.attempt < max_retries - 1
    THEN \* lines 143-146, 153-154, 159-160: continue
         [r EXCEPT !.attempt = @ + 1, !.log = SearchLog(r, ans)]
    ELSE \* lines 150, 155, 161: None; createPage line 201 calls createNewPage
         [r EXCEPT !.pc = "create", !.attempt = 0, !.log = SearchLog(r, ans)]

(* ---- updatePage ---- *)

\* the store accepts an update that carries the current version plus one
UpdateAccepted(r, pg) ==
    /\ r.found.id \in DOMAIN pg
    /\ r.found.version + 1 = pg[r.found.id].version + 1
    /\ PageIdsWithTitle(pg, FullTitle(r.title)) \subseteq {r.found.id}

UpdateAnswers(r, pg) ==
    {[kind |-> "raise", msg |-> <<"exception">>]}
    \cup {[kind |-> "reject", msg |-> m] : m \in UpdateMessages}
    \cup (IF UpdateAccepted(r, pg) THEN {[kind |-> "ok", msg |-> <<>>]} ELSE {})

\* mutant: the update writes the canonical title, without the suffix
updatePageBareTitle(r, pg, nid, ans) ==
    LET id == r.found.id
        entry(res) == r.log \o <<Req("update", id, res)>>
    IN  IF ans.kind = "ok"
        THEN Out([r EXCEPT !.pc = "done", !.result = Succeeded(id, "updated"),
                           !.log = entry("ok")],
                 [pg EXCEPT ![id].title = r.title,
                            ![id].content = FullContent(r.content),
                            ![id].version = r.found.version + 1],
                 nid)
        ELSE Out([r EXCEPT !.pc = "done", !.result = Failed(ans.msg, "409"),
                           !.faulted = TRUE, !.log = entry("fail")],
                 pg, nid)

updatePage(r, pg, nid, ans) ==
    LET id == r.found.id
        entry(res) == r.log \o <<Req("update", id, res)>>
    IN  CASE ans.kind = "ok" ->
               Out([r EXCEPT !.pc = "done", !.result = Succeeded(id, "updated"),
                             !.log = entry("ok")],
                   [pg EXCEPT ![id].title = FullTitle(r.title),
                              ![id].content = FullContent(r.content),
                              ![id].version = r.found.version + 1],
                   nid)
          [] ans.kind = "reject" ->
               Out([r EXCEPT !.pc = "done", !.result = Failed(ans.msg, "409"),
                             !.faulted = @ \/ UpdateAccepted(r, pg),
                             !.log = entry("fail")],
                   pg, nid)
          [] OTHER ->  \* lines 263-269
               Out([r EXCEPT !.pc = "done", !.result = Failed(ans.msg, "exception"),
                             !.faulted = TRUE, !.log = entry("fail")],
                   pg, nid)

(* ---- createNewPage: the POST request and what follows it ---- *)

\* line 360
IsDuplicateTitleError(msg) ==
    \/ Contains(Lower(msg), <<"already", "exists">>)
    \/ Contains(Lower(msg), <<"same", "title">>)

\* the store refuses a second page with a title of the space
CreateAnswers(r, pg) ==
    {[kind |-> "raise", msg |-> <<>>], [kind |-> "badjson", msg |-> <<>>]}
    \cup {[kind |-> "error", msg |-> m] : m \in OtherMessages}
    \cup (IF PageIdsWithTitle(pg, FullTitle(r.title)) = {}
          THEN {[kind |-> "ok", msg |-> <<>>]}
          ELSE {[kind |-> "error", msg |-> m] : m \in DupMessages})

\* mutant: a creation failure is returned as it is, without the direct lookup
createNewPageNoFallback(r, pg, nid, ans) ==
    LET entry(res) == r.log \o <<Req("create", 0, res)>>
    IN  CASE ans.kind = "raise" ->
               Out([r EXCEPT !.pc = "done", !.result = Raised, !.faulted = TRUE,
                             !.log = entry("raise")], pg, nid)
          [] ans.kind = "ok" ->
               Out([r EXCEPT !.pc = "done", !.result = Succeeded(nid, "created"),
                             !.log = entry("ok")],
                   [id \in DOMAIN pg \cup {nid} |->
                       IF id = nid
                       THEN [title |-> FullTitle(r.title), version |-> 1,
                             parent |-> ParentIdToUse(r.parent),
                             content |-> FullContent(r.content)]
                       ELSE pg[id]],
                   nid + 1)
          [] OTHER ->
               Out([r EXCEPT !.pc = "done", !.result = Failed(ans.msg, "400"),
                             !.faulted = ~IsDuplicateTitleError(ans.msg),
                             !.log = entry("fail")], pg, nid)

createNewPage(r, pg, nid, ans) ==
    LET entry(res) == r.log \o <<Req("create", 0, res)>>
    IN  CASE ans.kind = "raise" ->  \* requests.post, line 325, is not guarded
               Out([r EXCEPT !.pc = "done", !.result = Raised, !.faulted = TRUE,
                             !.log = entry("raise")], pg, nid)
          [] ans.kind = "badjson" ->  \* lines 337-343
               Out([r EXCEPT !.pc = "done",
                             !.result = Failed(<<"Invalid", "JSON">>, "absent"),
                             !.faulted = TRUE, !.log = entry("fail")], pg, nid)
          [] ans.kind = "ok" ->  \* lines 346-354
               Out([r EXCEPT !.pc = "done", !.result = Succeeded(nid, "created"),
                             !.log = entry("ok")],
                   [id \in DOMAIN pg \cup {nid} |->
                       IF id = nid
                       THEN [title |-> FullTitle(r.title), version |-> 1,
                             parent |-> ParentIdToUse(r.parent),
                             content |-> FullContent(r.content)]
                       ELSE pg[id]],
                   nid + 1)
          [] OTHER ->
               IF IsDuplicateTitleError(ans.msg)
               THEN \* lines 360-364: fall back to the direct lookup
                    Out([r EXCEPT !.pc = "direct", !.attempt = 0,
                                  !.createErr = Failed(ans.msg, "400"),
                                  !.log = entry("dup")], pg, nid)
               ELSE \* lines 396-402
                    Out([r EXCEPT !.pc = "done", !.result = Failed(ans.msg, "500"),
                                  !.faulted = TRUE, !.log = entry("fail")], pg, nid)

(* ---- findPageByTitleDirect, as createNewPage lines 364-394 use it ---- *)

DirectAnswers == {"ok", "err"}

findPageByTitleDirect(r, pg, ans) ==
    LET m == PageIdsWithTitle(pg, FullTitle(r.title))
    IN  IF ans = "ok" /\ m # {}
        THEN LET id == CHOOSE x \in m : TRUE
             IN  [id |-> id, version |-> pg[id].version]
        ELSE NoPage

\* mutant: the direct lookup is not repeated after a miss
DirectLookupOnce(r, pg, ans) ==
    LET page == findPageByTitleDirect(r, pg, ans)
        log1 == r.log \o <<Req("direct", r.attempt,
                               IF page = NoPage THEN "none" ELSE "found")>>
    IN  IF page # NoPage
        THEN [r EXCEPT !.pc = "update", !.found = page, !.log = log1]
        ELSE [r EXCEPT !.pc = "done", !.result = r.createErr,
                       !.faulted = @ \/ ans = "err", !.log = log1]

DirectLookup(r, pg, ans) ==
    LET page == findPageByTitleDirect(r, pg, ans)
        log1 == r.log
                \o (IF r.attempt > 0
                    THEN <<Req("sleep", DirectRetryDelay, "ok")>> ELSE <<>>)
                \o <<Req("direct", r.attempt,
                         IF page = NoPage THEN "none" ELSE "found")>>
    IN  IF page # NoPage
        THEN \* lines 366-375, 383-392: update instead
             [r EXCEPT !.pc = "update", !.found = page, !.log = log1]
        ELSE IF r.attempt = 0
        THEN \* lines 376-382: wait and look up once more
             [r EXCEPT !.attempt = 1, !.faulted = @ \/ ans = "err", !.log = log1]
        ELSE \* lines 394-402: the creation failure
             [r EXCEPT !.pc = "done", !.result = r.createErr,
                       !.faulted = @ \/ ans = "err", !.log = log1]

(* ---- one request of a call, with every answer the store can give ---- *)

Step(r, pg, nid) ==
    CASE r.pc = "search" ->
           {Out(findPageByTitle(r, pg, a), pg, nid) : a \in SearchAnswers(r, pg)}
      [] r.pc = "update" ->
           {updatePage(r, pg, nid, a) : a \in UpdateAnswers(r, pg)}
      [] r.pc = "create" ->
           {createNewPage(r, pg, nid, a) : a \in CreateAnswers(r, pg)}
      [] r.pc = "direct" ->
           {Out(DirectLookup(r, pg, a), pg, nid) : a \in DirectAnswers}
      [] OTHER -> {}

\* createPage as a whole: every way the call can end
RECURSIVE createPage(_, _, _)
createPage(r, pg, nid) ==
    IF r.pc = "done" THEN {Out(r, pg, nid)}
    ELSE UNION {createPage(o.r, o.pages, o.nextId) : o \in Step(r, pg, nid)}

----------------------------------------------------------------------------
(* Calls of searchPages, deletePages and cleanupOrphanPages not in progress *)

Root == 0
Nodes == 1..19
FamilyNodes == 1..9
Links == 10..11

NoUpsert == [st |-> "none", title |-> <<>>, parent |-> NoneId, result |-> NoResult]

EmptyStats == [success_count |-> 0, created_count |-> 0, updated_count |-> 0,
               errors |-> <<>>]

StatThreads == {"main", "w1", "w2"}

IdleStatThread == [pc |-> "idle", kind |-> "none", operation |-> "none",
                   error_info |-> <<>>, tmp |-> 0]

\* nobody calls _stats, its lock is free
IdleAgg == [lock |-> "free", th |-> [t \in StatThreads |-> IdleStatThread],
            calls |-> <<>>, waited |-> FALSE]

NoWalk == [pc |-> "idle", expected_pages |-> {}]

\* no title is being taken through createPage and cleanupOrphanPages
NoTrip == [pc |-> "idle", title |-> <<>>, full_title |-> <<>>, base_title |-> <<>>]

NoPool == [created |-> 0, shutdown |-> 0, live |-> FALSE]

PublishUnused ==
    /\ fs = [tree |-> {}, sep |-> "/", remote |-> "empty", reliable |-> FALSE,
            faults |-> FALSE]
    /\ run = "unused"
    /\ stack = <<>>
    /\ up = [n \in fs.tree |-> NoUpsert]
    /\ task = [n \in fs.tree |-> "none"]
    /\ queue = <<>>
    /\ stats = EmptyStats
    /\ pool = NoPool
    /\ agg = IdleAgg
    /\ walk = NoWalk
    /\ trip = NoTrip

IdleSearch == [pc |-> "idle", foundPages |-> <<>>, rest |-> <<>>, complete |-> FALSE,
               requests |-> 0]

IdleDelete == [pc |-> "idle", list |-> <<>>, j |-> 1, calls |-> <<>>,
               deletedPages |-> <<>>]

NoCleanupResult == [returned |-> FALSE, deleted_count |-> 0, orphans |-> <<>>,
                    skipped |-> "absent"]

IdleCleanup ==
    [pc |-> "idle", expected |-> {}, all_pages |-> <<>>, i |-> 1,
     orphan_ids |-> <<>>, orphan_details |-> <<>>, fetched |-> <<>>,
     result |-> NoCleanupResult]

----------------------------------------------------------------------------
(* SpecUpsert: clients call createPage on a shared store; the requests of   *)
(* concurrent calls interleave.                                             *)

Clients == {"t1", "t2"}
UpsertTitles == {<<"a">>, <<"b">>}
Contents == {<<"x">>}

NoSnapshot == [id |-> NoneId, version |-> 0, title |-> <<>>, content |-> <<>>]

\* the page of a title, as the store holds it
Snapshot(pg, fullTitle) ==
    LET m == PageIdsWithTitle(pg, fullTitle)
    IN  IF m = {} THEN NoSnapshot
        ELSE LET id == CHOOSE x \in m : TRUE
             IN  [id |-> id, version |-> pg[id].version, title |-> pg[id].title,
                  content |-> pg[id].content]

NoCall == [valid |-> FALSE, title |-> <<>>, content |-> <<>>, parent |-> NoneId,
           success |-> FALSE]

\* search_errors: the search requests of the call that were answered with an
\* error status or raised, counted in SpecSearchErrors
IdleClient ==
    [r |-> IdleCall, prev |-> NoCall, solo |-> TRUE, pre |-> NoSnapshot,
     search_errors |-> 0]

\* the stores a first call can meet: empty, or holding a page of an earlier
\* run, below the configured root or elsewhere in the space
PreexistingPage ==
    [title : {FullTitle(<<"a">>)}, version : {2},
     parent : {ConfigParentPageId, NoneId}, content : {FullContent(<<"old">>)}]

InitialStores == {<<>>} \cup {<<p>> : p \in PreexistingPage}

FirstPageId == ConfigParentPageId + 1

\* a sequence of pages as a store: ids from FirstPageId on
StoreOf(s) == [id \in FirstPageId..(FirstPageId + Len(s) - 1) |-> s[id - FirstPageId + 1]]

UniqueTitles(pg) == \A i, j \in DOMAIN pg : pg[i].title = pg[j].title => i = j

InitUpsert ==
    /\ \E s \in InitialStores :
          /\ UniqueTitles(StoreOf(s))
          /\ pages = StoreOf(s)
          /\ nextId = FirstPageId + Len(s)
    /\ callers = [c \in Clients |-> IdleClient]
    /\ last = NoCall
    /\ ncalls = 0
    /\ sp = IdleSearch /\ dp = IdleDelete /\ rc = IdleCleanup
    /\ mainpc = "unused"
    /\ PublishUnused

\* a client calls createPage(title, content, parentPageID)
Call(c) ==
    /\ callers[c].r.pc = "idle"
    /\ ncalls < MaxCalls
    /\ \E title \in UpsertTitles, content \in Contents,
          parent \in {NoneId} \cup (DOMAIN pages \cap {FirstPageId}) :
          callers' = [d \in Clients |->
                        IF d = c
                        THEN [r |-> BeginCall(title, content, parent),
                              prev |-> last,
                              solo |-> \A e \in Clients \ {c} : callers[e].r.pc = "idle",
                              pre |-> Snapshot(pages, FullTitle(title)),
                              search_errors |-> 0]
                        ELSE IF callers[d].r.pc = "idle" THEN callers[d]
                        ELSE [callers[d] EXCEPT !.solo = FALSE]]
    /\ ncalls' = ncalls + 1
    /\ UNCHANGED <<pages, nextId, last, reconcileVars, mainpc, publishVars>>

\* the call of client c issues its next request
Request(c) ==
    /\ callers[c].r.pc \in {"search", "update", "create", "direct"}
    /\ \E o \in Step(callers[c].r, pages, nextId) :
          /\ callers' = [callers EXCEPT ![c].r = o.r]
          /\ pages' = o.pages
          /\ nextId' = o.nextId
    /\ UNCHANGED <<last, ncalls, reconcileVars, mainpc, publishVars>>

\* the call of client c returns (or raises) to its caller
Return(c) ==
    /\ callers[c].r.pc = "done"
    /\ last' = [valid |-> TRUE, title |-> callers[c].r.title,
                content |-> callers[c].r.content, parent |-> callers[c].r.parent,
                success |-> callers[c].r.result.success]
    /\ callers' = [callers EXCEPT ![c] = IdleClient]
    /\ UNCHANGED <<pages, nextId, ncalls, reconcileVars, mainpc, publishVars>>

NextUpsert ==
    \/ \E c \in Clients : Call(c)
    \/ \E c \in Clients : Request(c)
    \/ \E c \in Clients : Return(c)

SpecUpsert == InitUpsert /\ [][NextUpsert]_vars

(* SpecSearchErrors: one client calls createPage, one call after the other; *)
(* the search requests that fail are counted per call.                      *)

\* the call of client c issues its next request; a search request that is
\* answered with an error or raises is counted
ObservedRequest(c) ==
    /\ callers[c].r.pc \in {"search", "update", "create", "direct"}
    /\ IF callers[c].r.pc = "search"
       THEN /\ \E a \in SearchAnswers(callers[c].r, pages) :
                  callers' = [callers EXCEPT
                                 ![c].r = findPageByTitle(@, pages, a),
                                 ![c].search_errors = @ + SearchError(a)]
            /\ pages' = pages
            /\ nextId' = nextId
       ELSE \E o \in Step(callers[c].r, pages, nextId) :
               /\ callers' = [callers EXCEPT ![c].r = o.r]
               /\ pages' = o.pages
               /\ nextId' = o.nextId
    /\ UNCHANGED <<last, ncalls, reconcileVars, mainpc, publishVars>>

NextSearchErrors ==
    \/ Call("t1")
    \/ ObservedRequest("t1")
    \/ Return("t1")

SpecSearchErrors == InitUpsert /\ [][NextSearchErrors]_vars

----------------------------------------------------------------------------
(* searchPages: the paginated listing of the managed pages *)

Limit == 250   \* limit=250 of the listing request

Min(a, b) == IF a < b THEN a ELSE b

\* CQL title~"<pattern>": the pages this system manages
Managed(pg) == {id \in DOMAIN pg : Contains(pg[id].title, SearchPattern)}

\* a finite set of integers as the ascending sequence of its elements
RECURSIVE Ascending(_)
Ascending(S) ==
    IF S = {} THEN <<>>
    ELSE LET m == CHOOSE x \in S : \A y \in S : x <= y
         IN  <<m>> \o Ascending(S \ {m})

\* lines 416-426: the first request is about to be sent; rest is what the store
\* has still to return
StartSearch(pg) ==
    [pc |-> "run", foundPages |-> <<>>, rest |-> Ascending(Managed(pg)),
     complete |-> FALSE, requests |-> 0]

\* mutant: the batch replaces the ids found so far
searchPagesRequestLastBatch(s, ans) ==
    IF ans.kind = "ok"
    THEN LET batch == SubSeq(s.rest, 1, ans.size)
             after == SubSeq(s.rest, ans.size + 1, Len(s.rest))
         IN  [s EXCEPT !.foundPages = batch,
                       !.rest = after,
                       !.requests = @ + 1,
                       !.complete = (after = <<>>),
                       !.pc = IF after = <<>> THEN "done" ELSE "run"]
    ELSE [s EXCEPT !.requests = @ + 1, !.pc = "done"]

\* lines 429-479: one request of the loop. The store answers with a batch of
\* at most Limit ids and a next link while ids remain, or the request fails
\* (status other than 200, or an exception) and the loop is left.
searchPagesRequest(s, ans) ==
    IF ans.kind = "ok"
    THEN LET batch == SubSeq(s.rest, 1, ans.size)
             after == SubSeq(s.rest, ans.size + 1, Len(s.rest))
         IN  [s EXCEPT !.foundPages = @ \o batch,
                       !.rest = after,
                       !.requests = @ + 1,
                       !.complete = (after = <<>>),
                       !.pc = IF after = <<>> THEN "done" ELSE "run"]
    ELSE [s EXCEPT !.requests = @ + 1, !.pc = "done"]

ListAnswers(s) ==
    {[kind |-> "fail", size |-> 0]}
    \cup (IF s.rest = <<>> THEN {[kind |-> "ok", size |-> 0]}
          ELSE {[kind |-> "ok", size |-> n] : n \in 1..Min(Limit, Len(s.rest))})

----------------------------------------------------------------------------
(* deletePages *)

\* lines 607-611
StartDelete(list) == [IdleDelete EXCEPT !.pc = IF list = <<>> THEN "done" ELSE "run",
                                        !.list = list]

\* the answers of the store to DELETE content/<id>: 204, another status, or a
\* failed network call (requests.delete raises)
DeleteAnswers(pg, id) ==
    {"fail", "raise"} \cup (IF id \in DOMAIN pg THEN {"204"} ELSE {})

\* lines 613-624: one iteration of the loop. An exception of requests.delete
\* is not caught and leaves deletePages; deletedPages is never appended to.
deletePagesRequest(d, ans) ==
    LET calls1 == Append(d.calls, [id |-> d.list[d.j], res |-> ans])
    IN  IF ans = "raise"
        THEN [d EXCEPT !.calls = calls1, !.pc = "raised"]
        ELSE [d EXCEPT !.calls = calls1, !.j = @ + 1,
                       !.pc = IF d.j = Len(d.list) THEN "done" ELSE "run"]

\* the store after the answer
AfterDelete(pg, id, ans) ==
    IF ans = "204" THEN [x \in DOMAIN pg \ {id} |-> pg[x]] ELSE pg

----------------------------------------------------------------------------
(* cleanupOrphanPages *)

Whitespace == {" "}

\* str.replace(old, ""): every occurrence, left to right, without overlap
RECURSIVE RemoveAll(_, _)
RemoveAll(s, old) ==
    IF Len(s) < Len(old) \/ old = <<>> THEN s
    ELSE IF OccursAt(s, old, 1)
    THEN RemoveAll(SubSeq(s, Len(old) + 1, Len(s)), old)
    ELSE <<Head(s)>> \o RemoveAll(Tail(s), old)

\* str.strip()
RECURSIVE Strip(_)
Strip(s) ==
    IF s = <<>> THEN s
    ELSE IF Head(s) \in Whitespace THEN Strip(Tail(s))
    ELSE IF s[Len(s)] \in Whitespace THEN Strip(SubSeq(s, 1, Len(s) - 1))
    ELSE s

\* lines 544-549
BaseTitle(full_title) ==
    IF Contains(full_title, SearchPattern)
    THEN Strip(RemoveAll(full_title, <<" ", " ">> \o SearchPattern))
    ELSE full_title

\* mutant: the deletion is let through up to half of the pages listed
ThresholdExceededMajority(orphan_count, total_pages) ==
    orphan_count * 2 > total_pages

\* lines 567-587: more than 20% of the pages listed are orphans.
\* (orphan_count / total_pages) * 100 > 20 in floating point; for the counts
\* of the model the comparison agrees with the exact one.
ThresholdExceeded(orphan_count, total_pages) ==
    orphan_count * 100 > 20 * total_pages

\* mutant: the title is compared with its suffix still on
ClassifyFullTitle(c, id, title) ==
    IF title \notin c.expected
    THEN [c EXCEPT !.orphan_ids = Append(@, id),
                   !.orphan_details = Append(@, [id |-> id, title |-> title,
                                                 base_title |-> BaseTitle(title)])]
    ELSE c

\* lines 540-561: the title request for page id was answered
Classify(c, id, title) ==
    IF BaseTitle(title) \notin c.expected
    THEN [c EXCEPT !.orphan_ids = Append(@, id),
                   !.orphan_details = Append(@, [id |-> id, title |-> title,
                                                 base_title |-> BaseTitle(title)])]
    ELSE c

\* the answers of the store to GET content/<id>
FetchAnswers(pg, id) ==
    {"fail", "raise"} \cup (IF id \in DOMAIN pg THEN {"200"} ELSE {})

\* lines 530-565: one iteration of the identification loop
cleanupFetch(c, pg, ans) ==
    LET id == c.all_pages[c.i]
        c1 == IF ans = "200" THEN Classify(c, id, pg[id].title) ELSE c
    IN  [c1 EXCEPT !.i = @ + 1,
                   !.fetched = Append(@, [id |-> id, ok |-> ans = "200",
                                          title |-> IF ans = "200" THEN pg[id].title
                                                    ELSE <<>>]),
                   !.pc = IF c.i = Len(c.all_pages) THEN "guard" ELSE "fetch"]

\* cleanupOrphanPages is called with the expected set
CleanupStart(expected) ==
    /\ rc.pc = "idle"
    /\ rc' = [IdleCleanup EXCEPT !.pc = "list", !.expected = expected]
    /\ sp' = StartSearch(pages)
    /\ UNCHANGED <<pages, nextId, dp, upsertVars, mainpc, publishVars>>

\* searchPages sends a request
SearchPagesStep ==
    /\ sp.pc = "run"
    /\ \E a \in ListAnswers(sp) : sp' = searchPagesRequest(sp, a)
    /\ UNCHANGED <<pages, nextId, dp, rc, upsertVars, mainpc, publishVars>>

\* mutant: an empty listing goes on to the safety check
CleanupListedUnchecked ==
    /\ rc.pc = "list" /\ sp.pc = "done"
    /\ rc' = IF sp.foundPages = <<>>
             THEN [rc EXCEPT !.pc = "guard", !.all_pages = sp.foundPages]
             ELSE [rc EXCEPT !.pc = "fetch", !.all_pages = sp.foundPages]
    /\ UNCHANGED <<pages, nextId, sp, dp, upsertVars, mainpc, publishVars>>

\* lines 509-514: searchPages has returned
CleanupListed ==
    /\ rc.pc = "list" /\ sp.pc = "done"
    /\ rc' = IF sp.foundPages = <<>>
             THEN [rc EXCEPT !.pc = "done",
                             !.result = [returned |-> TRUE, deleted_count |-> 0,
                                         orphans |-> <<>>, skipped |-> "absent"]]
             ELSE [rc EXCEPT !.pc = "fetch", !.all_pages = sp.foundPages]
    /\ UNCHANGED <<pages, nextId, sp, dp, upsertVars, mainpc, publishVars>>

CleanupFetchStep ==
    /\ rc.pc = "fetch"
    /\ \E a \in FetchAnswers(pages, rc.all_pages[rc.i]) : rc' = cleanupFetch(rc, pages, a)
    /\ UNCHANGED <<pages, nextId, sp, dp, upsertVars, mainpc, publishVars>>

\* lines 567-601: the safety check, then deletePages or the return
CleanupGuard ==
    /\ rc.pc = "guard"
    /\ LET orphan_count == Len(rc.orphan_ids)
           total_pages == Len(rc.all_pages)
       IN  IF orphan_count > 0
           THEN IF ThresholdExceeded(orphan_count, total_pages)
                THEN /\ rc' = [rc EXCEPT !.pc = "done",
                                  !.result = [returned |-> TRUE, deleted_count |-> 0,
                                              orphans |-> rc.orphan_details,
                                              skipped |-> "True"]]
                     /\ dp' = dp
                ELSE /\ rc' = [rc EXCEPT !.pc = "delete"]
                     /\ dp' = StartDelete(rc.orphan_ids)
           ELSE /\ rc' = [rc EXCEPT !.pc = "done",
                             !.result = [returned |-> TRUE, deleted_count |-> 0,
                                         orphans |-> <<>>, skipped |-> "False"]]
                /\ dp' = dp
    /\ UNCHANGED <<pages, nextId, sp, upsertVars, mainpc, publishVars>>

\* deletePages sends a request
DeletePagesStep ==
    /\ dp.pc = "run"
    /\ \E a \in DeleteAnswers(pages, dp.list[dp.j]) :
          /\ dp' = deletePagesRequest(dp, a)
          /\ pages' = AfterDelete(pages, dp.list[dp.j], a)
    /\ UNCHANGED <<nextId, sp, rc, upsertVars, mainpc, publishVars>>

\* lines 591-598: deletePages has returned; or its exception leaves
\* cleanupOrphanPages too
CleanupDeleted ==
    /\ rc.pc = "delete" /\ dp.pc \in {"done", "raised"}
    /\ rc' = IF dp.pc = "done"
             THEN [rc EXCEPT !.pc = "done",
                             !.result = [returned |-> TRUE,
                                         deleted_count |-> Len(rc.orphan_ids),
                                         orphans |-> rc.orphan_details,
                                         skipped |-> "False"]]
             ELSE [rc EXCEPT !.pc = "raised"]
    /\ UNCHANGED <<pages, nextId, sp, dp, upsertVars, mainpc, publishVars>>

(* SpecReconcile: one cleanupOrphanPages call on a store of managed pages *)

Letters == <<"a", "b", "c", "d", "e", "f", "g", "h">>
RemoteTitle(i) == <<Letters[i]>>

\* n managed pages, titled RemoteTitle(1..n) plus suffix
ManagedStore(n) ==
    [id \in FirstPageId..(FirstPageId + n - 1) |->
        [title |-> FullTitle(RemoteTitle(id - FirstPageId + 1)), version |-> 1,
         parent |-> ConfigParentPageId, content |-> FullContent(<<"x">>)]]

AMd == <<"a", ".", "m", "d">>
OldMd == <<"o", "l", "d", ".", "m", "d">>

\* the store after a run that published a.md, holding the page of a file
\* old.md that is no longer in the local tree
OneOrphanStore ==
    StoreOf(<<[title |-> FullTitle(AMd), version |-> 1,
               parent |-> ConfigParentPageId, content |-> FullContent(<<"x">>)],
              [title |-> FullTitle(OldMd), version |-> 1,
               parent |-> ConfigParentPageId, content |-> FullContent(<<"x">>)]>>)

RemoteStores == {ManagedStore(n) : n \in 0..MaxRemote} \cup {OneOrphanStore}

InitReconcile ==
    /\ \E pg \in RemoteStores :
          pages = pg /\ nextId = FirstPageId + Cardinality(DOMAIN pg)
    /\ callers = [c \in Clients |-> IdleClient] /\ last = NoCall /\ ncalls = 0
    /\ sp = IdleSearch /\ dp = IdleDelete /\ rc = IdleCleanup
    /\ mainpc = "unused"
    /\ PublishUnused

LocalTitles == {RemoteTitle(i) : i \in 1..MaxRemote}

\* the expected sets of the calls: titles of the local trees
ExpectedSets == (SUBSET LocalTitles) \cup {{AMd}}

NextReconcile ==
    \/ \E expected \in ExpectedSets : CleanupStart(expected)
    \/ SearchPagesStep
    \/ CleanupListed
    \/ CleanupFetchStep
    \/ CleanupGuard
    \/ DeletePagesStep
    \/ CleanupDeleted

SpecReconcile == InitReconcile /\ [][NextReconcile]_vars

----------------------------------------------------------------------------
(* The local tree. Its entries are drawn from a fixed family of paths below *)
(* the publish root; entry 0 is the root itself.                            *)


NodeName(n) ==
    CASE n = 1 -> <<"b">>
      [] n = 2 -> <<"a", ".", "m", "d">>
      [] n = 3 -> <<"a", ".", "M", "D">>
      [] n = 4 -> <<"d">>
      [] n = 5 -> <<"a", ".", "m", "d">>
      [] n = 6 -> <<"c", ".", "m", "d">>
      [] n = 7 -> <<"n", ".", "t", "x", "t">>
      [] n = 8 -> <<"e">>
      [] n = 9 -> <<"b", "\\", "a", ".", "m", "d">>
      [] n = 10 -> <<"l", ".", "m", "d">>
      [] n = 11 -> <<"k">>
      [] n = 12 -> <<"a", ".", "m", "d">>
      [] n = 13 -> <<"p">>
      [] n = 14 -> <<"q">>
      [] n = 15 -> <<"x", ".", "m", "d">>
      [] n = 16 -> <<"f", ".", "m", "d">>
      [] n = 17 -> <<"g", ".", "m", "d">>
      [] n = 18 -> <<"h", ".", "m", "d">>
      [] OTHER -> <<"i", ".", "m", "d">>

NodeParent(n) ==
    CASE n \in {3, 4, 6} -> 1
      [] n \in {5, 13} -> 4
      [] n = 12 -> 11
      [] n = 14 -> 13
      [] n = 15 -> 14
      [] OTHER -> Root

\* entries 10 and 11 are symbolic links, to a file and to a directory
NodeKind(n) ==
    CASE n \in {1, 4, 8, 13, 14} -> "dir"
      [] n = 10 -> "linkfile"
      [] n = 11 -> "linkdir"
      [] OTHER -> "file"

\* the separators a file name cannot hold on the platform
Forbidden(sep) == IF sep = "/" THEN {"/"} ELSE {"/", "\\"}

\* the trees of at most MaxEntries entries: closed under parent, the names
\* legal on the platform
Trees(sep) ==
    {T \in SUBSET FamilyNodes :
        /\ Cardinality(T) <= MaxEntries
        /\ \A n \in T : NodeParent(n) = Root \/ NodeParent(n) \in T
        /\ \A n \in T : \A k \in 1..Len(NodeName(n)) : NodeName(n)[k] \notin Forbidden(sep)}

Children(T, d) == {n \in T : NodeParent(n) = d}

LowerChar(ch) == CASE ch = "M" -> "m" [] ch = "D" -> "d" [] OTHER -> ch

\* str.lower() on a path
LowerPath(path) == [i \in 1..Len(path) |-> LowerChar(path[i])]

\* str.endswith
EndsWith(s, suffix) ==
    /\ Len(s) >= Len(suffix)
    /\ SubSeq(s, Len(s) - Len(suffix) + 1, Len(s)) = suffix

\* os.path.relpath(entry.path, base_folder): the names from the root down to
\* the entry, joined by os.sep
RECURSIVE RelPath(_, _)
RelPath(n, sep) ==
    IF NodeParent(n) = Root THEN NodeName(n)
    ELSE RelPath(NodeParent(n), sep) \o <<sep>> \o NodeName(n)

\* str.replace(old, new) for one-character old and new
ReplaceChar(s, old, new) == [i \in 1..Len(s) |-> IF s[i] = old THEN new ELSE s[i]]

\* mutant: the title is the name of the entry alone
BaseNameTitle(n, sep) == NodeName(n)

\* publishFolder lines 214-215, processMarkdownFile lines 104-105
CanonicalTitle(n, sep) == ReplaceChar(RelPath(n, sep), sep, "/")

\* publishFolder lines 204-208: the entries of a folder that are published
\* entry.is_dir() and entry.is_file() follow symbolic links
is_dir(n) == NodeKind(n) \in {"dir", "linkdir"}
is_file(n) == NodeKind(n) \in {"file", "linkfile"}

DirsOf(T, d) == {n \in Children(T, d) : is_dir(n)}
FilesOf(T, d, sep) ==
    {n \in Children(T, d) :
        /\ is_file(n)
        /\ EndsWith(LowerPath(RelPath(n, sep)), <<".", "m", "d">>)}

\* processMarkdownFile lines 112-128: the files whose lines name images to
\* attach, and the files that open() or the decoding may refuse
HasImages == {3}
MayBeUnreadable == {5}

\* lines 146-156: attachFile is called for the images of the file; its
\* request may raise
AttachOutcomes(f) == IF f \in HasImages THEN {"done", "raised"} ELSE {"done"}

DirContent == <<"children">>          \* the children macro, line 221
FileContent(n) == <<"html", NodeName(n)>>  \* markdown.markdown(...), line 133

----------------------------------------------------------------------------
(* publishFolder and processMarkdownFile *)

\* mutant: a pool with a worker for every entry
OneWorkerPerEntry == Cardinality(fs.tree) + 1

PoolSize == 4   \* ThreadPoolExecutor(max_workers=4)

\* mutant: the call forgets the page id it was given
FrameUnderRoot(T, d, parentPageID, sep, executor) ==
    [folder |-> d, parentPageID |-> NoneId, is_root |-> executor = "none",
     phase |-> "dirs", cur |-> Root,
     dirsLeft |-> DirsOf(T, d), filesLeft |-> FilesOf(T, d, sep),
     futures |-> {}]

\* lines 188-208: a call of publishFolder on folder d
Frame(T, d, parentPageID, sep, executor) ==
    [folder |-> d, parentPageID |-> parentPageID, is_root |-> executor = "none",
     phase |-> "dirs", cur |-> Root,
     dirsLeft |-> DirsOf(T, d), filesLeft |-> FilesOf(T, d, sep),
     futures |-> {}]

\* the operation of the outcome is not counted
add_successUntagged(st, operation) == [st EXCEPT !.success_count = @ + 1]

\* PublishStats.add_success, under the lock
add_success(st, operation) ==
    [st EXCEPT !.success_count = @ + 1,
               !.created_count = IF operation = "created" THEN @ + 1 ELSE @,
               !.updated_count = IF operation = "updated" THEN @ + 1 ELSE @]

\* the error entry is not kept
add_errorLost(st, error_info) == st

\* PublishStats.add_error, under the lock
add_error(st, error_info) == [st EXCEPT !.errors = Append(@, error_info)]

\* the entry names the enclosing folder instead of the entry
ErrorInfoOfFolder(n, type, result) ==
    [path |-> NodeParent(n), type |-> type, error |-> result.error,
     status_code |-> IF result.status_code = "absent" THEN "N/A"
                     ELSE result.status_code]

\* lines 161-166 and 239-244: error_info
ErrorInfo(n, type, result) ==
    [path |-> n, type |-> type, error |-> result.error,
     status_code |-> IF result.status_code = "absent" THEN "N/A"
                     ELSE result.status_code]

Top == stack[Len(stack)]
SetTop(f) == [stack EXCEPT ![Len(stack)] = f]
Pop == SubSeq(stack, 1, Len(stack) - 1)

\* mutant: the subdirectory is entered whatever the outcome of its page
DescendAlways(result) == TRUE

\* line 227: the subdirectory is entered when its page was upserted
Descend(result) == result.success

\* a call that creates its pool whatever executor it was given
EnterFolderFresh(pl, executor) ==
    [pl EXCEPT !.created = @ + 1, !.live = TRUE]

\* lines 192-196: a call that was given no executor creates the pool
EnterFolder(pl, executor) ==
    IF executor = "none"
    THEN [pl EXCEPT !.created = @ + 1, !.live = TRUE]
    ELSE pl

\* lines 274-278: the finally clause of a call shuts the pool down when the
\* call created it
Finally(pl, frame) ==
    IF frame.is_root
    THEN [pl EXCEPT !.shutdown = @ + 1, !.live = FALSE]
    ELSE pl

RECURSIVE Unwind(_, _)
\* an exception leaves the calls of frames, innermost first, through their
\* finally clauses
Unwind(pl, frames) ==
    IF frames = <<>> THEN pl
    ELSE Unwind(Finally(pl, frames[Len(frames)]), SubSeq(frames, 1, Len(frames) - 1))

\* lines 188-208: the root call creates the pool and scans the root folder
PublishStart ==
    /\ run = "notstarted"
    /\ run' = "running"
    /\ pool' = EnterFolder(pool, "none")
    /\ stack' = <<Frame(fs.tree, Root, NoneId, fs.sep, "none")>>
    /\ UNCHANGED <<pages, nextId, fs, up, task, queue, stats,
                   upsertVars, reconcileVars, mainpc, agg, walk, trip>>

\* the outcomes of a createPage call: every one the store allows, or, with a
\* store that answers every request, those of the calls no request of which
\* failed
StoreOutcomes(outcomes) ==
    IF fs.reliable THEN {o \in outcomes : ~o.r.faulted} ELSE outcomes

\* lines 212-225: the loop takes the next subdirectory and calls createPage
DirUpsertBegin ==
    /\ run = "running" /\ stack # <<>>
    /\ Top.phase = "dirs" /\ Top.cur = Root
    /\ \E d \in Top.dirsLeft :
          /\ up' = [up EXCEPT ![d] = [st |-> "running",
                                      title |-> CanonicalTitle(d, fs.sep),
                                      parent |-> Top.parentPageID,
                                      result |-> NoResult]]
          /\ stack' = SetTop([Top EXCEPT !.cur = d, !.dirsLeft = @ \ {d}])
    /\ UNCHANGED <<pages, nextId, fs, run, task, queue, stats, pool,
                   upsertVars, reconcileVars, mainpc, agg, walk, trip>>

\* lines 219-247 and 274-278: createPage returns or raises for the
\* subdirectory. An exception leaves every frame; the finally of the root
\* call shuts the pool down.
DirUpsertEnd ==
    /\ run = "running" /\ stack # <<>>
    /\ Top.phase = "dirs" /\ Top.cur # Root
    /\ up[Top.cur].st = "running"
    /\ LET d == Top.cur
       IN  \E o \in StoreOutcomes(createPage(BeginCall(up[d].title, DirContent,
                                                      up[d].parent),
                                            pages, nextId)) :
              LET result == o.r.result
              IN  /\ pages' = o.pages
                  /\ nextId' = o.nextId
                  /\ fs' = [fs EXCEPT !.faults = @ \/ o.r.faulted]
                  /\ IF result.raised
                     THEN /\ up' = [up EXCEPT ![d].st = "raised", ![d].result = result]
                          /\ stack' = <<>>
                          /\ run' = "raised"
                          /\ stats' = stats
                          /\ pool' = Unwind(pool, stack)
                     ELSE IF Descend(result)
                     THEN /\ up' = [up EXCEPT ![d].st = IF result.success THEN "ok"
                                                        ELSE "failed",
                                              ![d].result = result]
                          /\ stats' = add_success(stats, result.operation)
                          /\ stack' = Append(stack,
                                             Frame(fs.tree, d, result.page_id, fs.sep,
                                                   "passed"))
                          /\ pool' = EnterFolder(pool, "passed")
                          /\ run' = run
                     ELSE /\ up' = [up EXCEPT ![d].st = "failed", ![d].result = result]
                          /\ stats' = add_error(stats, ErrorInfo(d, "directory", result))
                          /\ stack' = SetTop([Top EXCEPT !.cur = Root])
                          /\ pool' = pool
                          /\ run' = run
    /\ UNCHANGED <<task, queue,
                   upsertVars, reconcileVars, mainpc, agg, walk, trip>>

\* mutant: the files are submitted while subdirectories are still to do
SubmitBeforeSubdirectories ==
    /\ run = "running" /\ stack # <<>>
    /\ Top.cur = Root
    /\ Top.phase \in {"dirs", "files"}
    /\ \E f \in Top.filesLeft :
          /\ task' = [task EXCEPT ![f] = "queued"]
          /\ queue' = Append(queue, [file_entry |-> f,
                                     parentPageID |-> Top.parentPageID])
          /\ stack' = SetTop([Top EXCEPT !.filesLeft = @ \ {f},
                                         !.futures = @ \cup {f}])
    /\ UNCHANGED <<pages, nextId, fs, run, up, stats, pool,
                   upsertVars, reconcileVars, mainpc, agg, walk, trip>>

\* lines 249-263: every subdirectory is done; the files of the folder are
\* submitted to the pool, one per step
Submit ==
    /\ run = "running" /\ stack # <<>>
    /\ Top.cur = Root /\ Top.dirsLeft = {}
    /\ Top.phase \in {"dirs", "files"}
    /\ \E f \in Top.filesLeft :
          /\ task' = [task EXCEPT ![f] = "queued"]
          /\ queue' = Append(queue, [file_entry |-> f,
                                     parentPageID |-> Top.parentPageID])
          /\ stack' = SetTop([Top EXCEPT !.phase = "files",
                                         !.filesLeft = @ \ {f},
                                         !.futures = @ \cup {f}])
    /\ UNCHANGED <<pages, nextId, fs, run, up, stats, pool,
                   upsertVars, reconcileVars, mainpc, agg, walk, trip>>

\* mutant: the nested calls of publishFolder hold workers of the pool too
RunningOrNested ==
    {n \in fs.tree : task[n] = "running"}
    \cup {stack[k].folder : k \in 2..Len(stack)}

\* the tasks that hold a worker of the pool
Running == {n \in fs.tree : task[n] = "running"}

\* a worker of the pool takes the next task: processMarkdownFile lines
\* 104-137 read the file and call createPage; reading may raise
TaskStart ==
    /\ queue # <<>>
    /\ Cardinality(Running) < PoolSize
    /\ LET f == Head(queue).file_entry
       IN  /\ queue' = Tail(queue)
           /\ \/ /\ task' = [task EXCEPT ![f] = "running"]
                 /\ up' = [up EXCEPT ![f] =
                              [st |-> "running", title |-> CanonicalTitle(f, fs.sep),
                               parent |-> Head(queue).parentPageID,
                               result |-> NoResult]]
              \/ /\ f \in MayBeUnreadable
                 /\ task' = [task EXCEPT ![f] = "raised"]
                 /\ up' = up
    /\ UNCHANGED <<pages, nextId, fs, run, stack, stats, pool,
                   upsertVars, reconcileVars, mainpc, agg, walk, trip>>

\* processMarkdownFile lines 131-170: createPage returns or raises; the
\* outcome is recorded; attaching the images of a published file may raise
TaskEnd(f) ==
    /\ f \in fs.tree
    /\ task[f] = "running" /\ up[f].st = "running"
    /\ \E o \in StoreOutcomes(createPage(BeginCall(up[f].title, FileContent(f),
                                                  up[f].parent),
                                        pages, nextId)) :
          LET result == o.r.result
          IN  /\ pages' = o.pages
              /\ nextId' = o.nextId
              /\ fs' = [fs EXCEPT !.faults = @ \/ o.r.faulted]
              /\ IF result.raised
                 THEN /\ up' = [up EXCEPT ![f].st = "raised", ![f].result = result]
                      /\ task' = [task EXCEPT ![f] = "raised"]
                      /\ stats' = stats
                 ELSE IF result.success
                 THEN /\ up' = [up EXCEPT ![f].st = "ok", ![f].result = result]
                      /\ stats' = add_success(stats, result.operation)
                      /\ \E attach \in AttachOutcomes(f) :
                            task' = [task EXCEPT ![f] = attach]
                 ELSE /\ up' = [up EXCEPT ![f].st = "failed", ![f].result = result]
                      /\ stats' = add_error(stats, ErrorInfo(f, "file", result))
                      /\ task' = [task EXCEPT ![f] = "done"]
    /\ UNCHANGED <<run, stack, queue, pool,
                   upsertVars, reconcileVars, mainpc, agg, walk, trip>>

\* lines 265-278: every file of the folder is done (or the folder has none):
\* the call returns. The root call shuts the pool down; a nested call returns
\* into the loop over the subdirectories of its caller.
FolderReturn ==
    /\ run = "running" /\ stack # <<>>
    /\ Top.cur = Root /\ Top.dirsLeft = {} /\ Top.filesLeft = {}
    /\ \A f \in Top.futures : task[f] \in {"done", "raised"}
    /\ pool' = Finally(pool, Top)
    /\ IF Len(stack) = 1
       THEN /\ stack' = <<>>
            /\ run' = "returned"
       ELSE /\ stack' = [Pop EXCEPT ![Len(stack) - 1].cur = Root]
            /\ run' = run
    /\ UNCHANGED <<pages, nextId, fs, up, task, queue, stats,
                   upsertVars, reconcileVars, mainpc, agg, walk, trip>>

(* SpecPublish: one run of publishFolder on a local tree, against a store   *)
(* that is empty or holds the pages of an earlier run of the same tree      *)

RECURSIVE PublishedStore(_, _, _)
\* the store after the entries of list were created in turn, each below the
\* page of its parent
PublishedStore(list, sep, pg) ==
    IF list = <<>> THEN pg
    ELSE LET n == Head(list)
             id == FirstPageId + Cardinality(DOMAIN pg)
             parentIds == {x \in DOMAIN pg :
                             /\ NodeParent(n) # Root
                             /\ pg[x].title = FullTitle(CanonicalTitle(NodeParent(n), sep))}
             page == [title |-> FullTitle(CanonicalTitle(n, sep)), version |-> 1,
                      parent |-> IF parentIds = {} THEN ConfigParentPageId
                                 ELSE CHOOSE x \in parentIds : TRUE,
                      content |-> FullContent(<<"old">>)]
         IN  PublishedStore(Tail(list), sep,
                            [x \in DOMAIN pg \cup {id} |-> IF x = id THEN page ELSE pg[x]])

Published(T, sep) ==
    {n \in T : NodeKind(n) = "dir" \/ n \in FilesOf(T, NodeParent(n), sep)}

EmptyStore == [x \in {} |-> 0]

\* a chain of directories as deep as the pool is wide, b/d/p/q/x.md; a
\* folder of more markdown files than the pool has workers; a folder with a
\* symbolic link to a file and one to a directory that holds a.md
DeepTree == {1, 4, 13, 14, 15}
WideTree == {2, 16, 17, 18, 19}
LinkTree == {10, 11, 12}
ScenarioTrees == {DeepTree, WideTree, LinkTree}

\* the state before publishFolder is called on tree T
PublishCall(T, sep, remote, reliable) ==
    /\ fs = [tree |-> T, sep |-> sep, remote |-> remote, reliable |-> reliable,
             faults |-> FALSE]
    /\ pages = (IF remote = "empty" THEN EmptyStore
                ELSE PublishedStore(Ascending(Published(T, sep)), sep, EmptyStore))
    /\ nextId = FirstPageId + Cardinality(DOMAIN pages)
    /\ run = "notstarted"
    /\ stack = <<>>
    /\ up = [n \in T |-> NoUpsert]
    /\ task = [n \in T |-> "none"]
    /\ queue = <<>>
    /\ stats = EmptyStats
    /\ pool = NoPool
    /\ agg = IdleAgg
    /\ walk = NoWalk
    /\ trip = NoTrip
    /\ callers = [c \in Clients |-> IdleClient] /\ last = NoCall /\ ncalls = 0
    /\ sp = IdleSearch /\ dp = IdleDelete /\ rc = IdleCleanup
    /\ mainpc = "unused"

InitPublish ==
    \/ \E sep \in {"/", "\\"} : \E T \in Trees(sep) :
          \E remote \in {"empty", "published"} : PublishCall(T, sep, remote, FALSE)
    \/ \E T \in ScenarioTrees : PublishCall(T, "/", "empty", TRUE)

NextPublish ==
    \/ PublishStart
    \/ DirUpsertBegin
    \/ DirUpsertEnd
    \/ Submit
    \/ TaskStart
    \/ \E f \in Nodes : TaskEnd(f)
    \/ FolderReturn

SpecPublish == InitPublish /\ [][NextPublish]_vars

\* the calling thread and the workers of the pool keep running: a step that
\* stays possible is taken
InitPublishFair ==
    \/ \E sep \in {"/", "\\"} :
          \E T \in {U \in Trees(sep) : Cardinality(U) < MaxEntries} :
             \E remote \in {"empty", "published"} : PublishCall(T, sep, remote, FALSE)
    \/ \E T \in ScenarioTrees : PublishCall(T, "/", "empty", TRUE)

SpecPublishFair == InitPublishFair /\ [][NextPublish]_vars /\ WF_vars(NextPublish)

----------------------------------------------------------------------------
(* buildExpectedPagesSet: os.walk over the local tree *)

\* the trees buildExpectedPagesSet is called on: symbolic links included
WalkTrees(sep) ==
    {T \in SUBSET (FamilyNodes \cup Links) :
        /\ Cardinality(T) <= MaxWalkEntries
        /\ \A n \in T : NodeParent(n) = Root \/ NodeParent(n) \in T
        /\ \A n \in T : \A k \in 1..Len(NodeName(n)) : NodeName(n)[k] \notin Forbidden(sep)}

\* lines 64 and 67-71, 81-86: os.path.relpath(root, base_folder) is "." for
\* the base folder; the path of an entry is its name there, and
\* os.path.join(rel_root, name) elsewhere
rel_root(d, sep) == IF d = Root THEN <<".">> ELSE RelPath(d, sep)
WalkPath(d, n, sep) ==
    IF rel_root(d, sep) = <<".">> THEN NodeName(n)
    ELSE rel_root(d, sep) \o <<sep>> \o NodeName(n)

\* symbolic links are left out
WalkedTitlesNoLinks(T, d, sep) ==
    {ReplaceChar(WalkPath(d, n, sep), sep, "/") :
        n \in {m \in Children(T, d) :
                  \/ NodeKind(m) = "dir"
                  \/ /\ NodeKind(m) = "file"
                     /\ EndsWith(LowerPath(NodeName(m)), <<".", "m", "d">>)}}

\* lines 62-91: the titles added for one (root, dirs, files) of os.walk. The
\* dirs of os.walk are the entries for which is_dir() holds, its files are
\* the others.
WalkedTitles(T, d, sep) ==
    {ReplaceChar(WalkPath(d, n, sep), sep, "/") :
        n \in {m \in Children(T, d) :
                  \/ is_dir(m)
                  \/ EndsWith(LowerPath(NodeName(m)), <<".", "m", "d">>)}}

RECURSIVE Walk(_, _, _, _)
\* os.walk, top down: the directories still to visit, the titles so far. A
\* symbolic link to a directory is listed and not visited (followlinks is
\* False).
Walk(T, sep, pending, expected_pages) ==
    IF pending = <<>> THEN expected_pages
    ELSE LET d == Head(pending)
             subdirs == Ascending({n \in Children(T, d) : NodeKind(n) = "dir"})
         IN  Walk(T, sep, subdirs \o Tail(pending),
                  expected_pages \cup WalkedTitles(T, d, sep))

buildExpectedPagesSet(T, sep) == Walk(T, sep, <<Root>>, {})

walkFrame == <<pages, nextId, upsertVars, reconcileVars, mainpc,
               run, stack, up, task, queue, stats, pool, agg, trip>>

\* the call of buildExpectedPagesSet on the local tree
BuildExpected ==
    /\ walk.pc = "idle"
    /\ walk' = [pc |-> "done",
                expected_pages |-> buildExpectedPagesSet(fs.tree, fs.sep)]
    /\ UNCHANGED <<fs, walkFrame>>

InitExpected ==
    /\ \E sep \in {"/", "\\"} : \E T \in WalkTrees(sep) :
          fs = [tree |-> T, sep |-> sep, remote |-> "empty", reliable |-> FALSE,
            faults |-> FALSE]
    /\ pages = EmptyStore /\ nextId = FirstPageId
    /\ callers = [c \in Clients |-> IdleClient] /\ last = NoCall /\ ncalls = 0
    /\ sp = IdleSearch /\ dp = IdleDelete /\ rc = IdleCleanup
    /\ mainpc = "unused"
    /\ run = "unused" /\ stack = <<>>
    /\ up = [n \in fs.tree |-> NoUpsert] /\ task = [n \in fs.tree |-> "none"]
    /\ queue = <<>> /\ stats = EmptyStats /\ pool = NoPool /\ agg = IdleAgg
    /\ walk = NoWalk
    /\ trip = NoTrip

NextExpected == BuildExpected

SpecExpected == InitExpected /\ [][NextExpected]_vars

-----------------------------------------------------------------------------
(* SpecRoundTrip: a canonical title is given its display title by           *)
(* createPage and cleanupOrphanPages recovers the base title of that page.  *)

\* the characters of a title: two letters, the space and the search pattern
TitleChars == {"a", "b", " ", "#"}

\* the canonical titles of the model: the relative path of a local entry,
\* which may start or end with a space and may hold the pattern
TripTitles == UNION {[1..k -> TitleChars] : k \in 1..MaxTitleLen}

tripFrame == <<pages, nextId, callers, last, ncalls, sp, dp, rc, mainpc,
               fs, run, stack, up, task, queue, stats, pool, agg, walk>>

\* createPage lines 175-176: full_title = title + "  " + pattern
TripCreatePage(title) ==
    /\ trip.pc = "idle"
    /\ trip' = [trip EXCEPT !.pc = "published", !.title = title,
                            !.full_title = FullTitle(title)]
    /\ UNCHANGED tripFrame

\* cleanupOrphanPages lines 544-549: the base title of the page listed
TripCleanup ==
    /\ trip.pc = "published"
    /\ trip' = [trip EXCEPT !.pc = "recovered",
                            !.base_title = BaseTitle(trip.full_title)]
    /\ UNCHANGED tripFrame

InitRoundTrip ==
    /\ pages = EmptyStore /\ nextId = FirstPageId
    /\ callers = [c \in Clients |-> IdleClient] /\ last = NoCall /\ ncalls = 0
    /\ sp = IdleSearch /\ dp = IdleDelete /\ rc = IdleCleanup
    /\ mainpc = "unused"
    /\ PublishUnused

NextRoundTrip ==
    \/ \E title \in TripTitles : TripCreatePage(title)
    \/ TripCleanup

SpecRoundTrip == InitRoundTrip /\ [][NextRoundTrip]_vars

----------------------------------------------------------------------------
(* SpecStats: PublishStats under its callers. The workers of the pool and   *)
(* the thread that walks the directories call add_success and add_error;    *)
(* a call takes the lock, reads and writes the counters one after the other *)
(* (self.success_count += 1 is a read followed by a write) and gives the    *)
(* lock back.                                                               *)

Operations == {"created", "updated", "none"}

statsFrame == <<pages, nextId, upsertVars, reconcileVars, mainpc,
                fs, run, stack, up, task, queue, pool, walk, trip>>

\* the lock is taken whether it is free or not
LockIgnored(a) == TRUE

\* lines 25 and 33: with self.lock
LockFree(a) == a.lock = "free"

\* a thread calls add_success(operation) or add_error(error_info)
StatsCall(t) ==
    /\ agg.th[t].pc = "idle"
    /\ Len(agg.calls) < MaxStatCalls
    /\ \E call \in [kind : {"add_success"}, operation : Operations, error_info : {<<>>}]
                   \cup [kind : {"add_error"}, operation : {"none"},
                         error_info : {ErrorInfo(Len(agg.calls) + 1, "file",
                                                 Failed(<<"error">>, "500"))}] :
          agg' = [agg EXCEPT !.th[t] = [pc |-> "acquire", kind |-> call.kind,
                                        operation |-> call.operation,
                                        error_info |-> call.error_info, tmp |-> 0],
                             !.calls = Append(@, call),
                             !.waited = @ \/ agg.lock # "free"]
    /\ UNCHANGED <<stats, statsFrame>>

\* lines 25 and 33: the thread enters the with block
StatsAcquire(t) ==
    /\ agg.th[t].pc = "acquire"
    /\ LockFree(agg)
    /\ agg' = [agg EXCEPT !.lock = t,
                          !.th[t].pc = IF agg.th[t].kind = "add_success"
                                       THEN "load_success" ELSE "append"]
    /\ UNCHANGED <<stats, statsFrame>>

\* lines 26-30 and 34: one read or one write of a field of the instance
StatsStep(t) ==
    LET me == agg.th[t]
        next_after_success ==
            CASE me.operation = "created" -> "load_created"
              [] me.operation = "updated" -> "load_updated"
              [] OTHER -> "release"
    IN  /\ me.pc \in {"load_success", "store_success", "load_created", "store_created",
                      "load_updated", "store_updated", "append"}
        /\ CASE me.pc = "load_success" ->
                  /\ agg' = [agg EXCEPT !.th[t].tmp = stats.success_count,
                                        !.th[t].pc = "store_success"]
                  /\ stats' = stats
             [] me.pc = "store_success" ->
                  /\ stats' = [stats EXCEPT !.success_count = me.tmp + 1]
                  /\ agg' = [agg EXCEPT !.th[t].pc = next_after_success]
             [] me.pc = "load_created" ->
                  /\ agg' = [agg EXCEPT !.th[t].tmp = stats.created_count,
                                        !.th[t].pc = "store_created"]
                  /\ stats' = stats
             [] me.pc = "store_created" ->
                  /\ stats' = [stats EXCEPT !.created_count = me.tmp + 1]
                  /\ agg' = [agg EXCEPT !.th[t].pc = "release"]
             [] me.pc = "load_updated" ->
                  /\ agg' = [agg EXCEPT !.th[t].tmp = stats.updated_count,
                                        !.th[t].pc = "store_updated"]
                  /\ stats' = stats
             [] me.pc = "store_updated" ->
                  /\ stats' = [stats EXCEPT !.updated_count = me.tmp + 1]
                  /\ agg' = [agg EXCEPT !.th[t].pc = "release"]
             [] OTHER ->
                  /\ stats' = add_error(stats, me.error_info)
                  /\ agg' = [agg EXCEPT !.th[t].pc = "release"]
        /\ UNCHANGED statsFrame

\* the thread leaves the with block and the call returns
StatsRelease(t) ==
    /\ agg.th[t].pc = "release"
    /\ agg' = [agg EXCEPT !.lock = IF @ = t THEN "free" ELSE @,
                          !.th[t] = IdleStatThread]
    /\ UNCHANGED <<stats, statsFrame>>

InitStats ==
    /\ pages = EmptyStore /\ nextId = FirstPageId
    /\ callers = [c \in Clients |-> IdleClient] /\ last = NoCall /\ ncalls = 0
    /\ sp = IdleSearch /\ dp = IdleDelete /\ rc = IdleCleanup
    /\ mainpc = "unused"
    /\ PublishUnused

NextStats ==
    \/ \E t \in StatThreads : StatsCall(t)
    \/ \E t \in StatThreads : StatsAcquire(t)
    \/ \E t \in StatThreads : StatsStep(t)
    \/ \E t \in StatThreads : StatsRelease(t)

SpecStats == InitStats /\ [][NextStats]_vars

----------------------------------------------------------------------------
(* Claims about the upsert resolver, checked under SpecUpsert *)

Returned(c) == callers[c].r.pc = "done"

\* the call of c repeats the call that returned right before it began, with
\* no other call in progress meanwhile
RepeatsLastCall(c) ==
    LET k == callers[c]
    IN  /\ k.solo
        /\ k.prev.valid /\ k.prev.success
        /\ k.prev.title = k.r.title
        /\ k.prev.content = k.r.content
        /\ k.prev.parent = k.r.parent

\* C5: a createPage call that repeats the successful call before it, with the
\* same title, parent and content, returns operation 'updated' whether the
\* searches see the page or not (no request of the call failing for another
\* reason); the update raises the version of the page by exactly 1 and leaves
\* its title and content as they were.
C5_UpsertIdempotence ==
    \A c \in Clients :
        (Returned(c) /\ RepeatsLastCall(c) /\ ~callers[c].r.faulted) =>
            LET k == callers[c]
                id == k.r.result.page_id
            IN  /\ k.r.result.success
                /\ k.r.result.operation = "updated"
                /\ id = k.pre.id
                /\ id \in DOMAIN pages
                /\ pages[id].version = k.pre.version + 1
                /\ pages[id].title = k.pre.title
                /\ pages[id].content = k.pre.content

\* the index of the create request in a log, 0 when there is none
CreateIndex(log) ==
    IF \E i \in 1..Len(log) : log[i].op = "create"
    THEN CHOOSE i \in 1..Len(log) : log[i].op = "create"
    ELSE 0

\* the requests of a log after position k, as <<op, res>> pairs
After(log, k) == [i \in 1..(Len(log) - k) |-> <<log[k + i].op, log[k + i].res>>]

\* C5 witness: the repeated call met a lagging index (all searches empty, the
\* creation refused as a duplicate) and still returned 'updated'
C5_Witness ==
    \E c \in Clients :
        /\ Returned(c) /\ RepeatsLastCall(c) /\ ~callers[c].r.faulted
        /\ callers[c].r.result.operation = "updated"
        /\ CreateIndex(callers[c].r.log) > 0

\* C6: when the searches found nothing and the creation fails with a
\* duplicate-title error, the direct lookup is made; after a miss it is made
\* once more, after the fixed delay; a page found by either lookup is updated
\* and the outcome of that update is what the call returns; the creation
\* failure is returned only when both lookups miss.
C6_DuplicateTitleFallback ==
    \A c \in Clients :
        LET r == callers[c].r
            k == CreateIndex(r.log)
            rest == After(r.log, k)
            sleep == <<"sleep", "ok">>
        IN  (Returned(c) /\ k > 0 /\ r.log[k].res = "dup") =>
              \/ /\ rest \in {<<<<"direct", "found">>, <<"update", "ok">>>>,
                              <<<<"direct", "none">>, sleep, <<"direct", "found">>,
                                <<"update", "ok">>>>}
                 /\ r.result = Succeeded(r.found.id, "updated")
                 /\ r.log[Len(r.log)].arg = r.found.id
              \/ /\ rest \in {<<<<"direct", "found">>, <<"update", "fail">>>>,
                              <<<<"direct", "none">>, sleep, <<"direct", "found">>,
                                <<"update", "fail">>>>}
                 /\ ~r.result.success
                 /\ r.result.error \in UpdateMessages \cup {<<"exception">>}
                 /\ r.log[Len(r.log)].arg = r.found.id
              \/ /\ rest = <<<<"direct", "none">>, sleep, <<"direct", "none">>>>
                 /\ r.log[k + 2].arg = DirectRetryDelay
                 /\ ~r.result.success
                 /\ r.result.error \in DupMessages

\* C6 witness: the first lookup missed, the second found the page, the update
\* succeeded
C6_Witness ==
    \E c \in Clients :
        LET r == callers[c].r
            k == CreateIndex(r.log)
        IN  /\ Returned(c) /\ k > 0 /\ r.log[k].res = "dup"
            /\ \A i \in 1..(k - 1) : r.log[i].op = "search" => r.log[i].res = "none"
            /\ After(r.log, k) = <<<<"direct", "none">>, <<"sleep", "ok">>,
                                   <<"direct", "found">>, <<"update", "ok">>>>
            /\ r.result.operation = "updated"

\* C7: the store never holds two pages with one full title, and when a
\* createPage call returns success it holds exactly one page with the full
\* title of the call, the page the call names.
C7_SinglePagePerTitle ==
    /\ UniqueTitles(pages)
    /\ \A c \in Clients :
          (Returned(c) /\ callers[c].r.result.success) =>
              PageIdsWithTitle(pages, FullTitle(callers[c].r.title))
                  = {callers[c].r.result.page_id}

\* C7 witness: two calls for one title were in progress together and the
\* later one returned success
C7_Witness ==
    \E c, d \in Clients :
        /\ c # d
        /\ Returned(c) /\ callers[c].r.result.success /\ ~callers[c].solo
        /\ callers[d].r.pc # "idle"
        /\ callers[d].r.title = callers[c].r.title
        /\ CreateIndex(callers[c].r.log) > 0

----------------------------------------------------------------------------
(* Claims about the publisher *)

Present == fs.tree

\* C1: no createPage call is made for an entry that lies in a subdirectory
\* before the createPage call for that subdirectory has returned a success;
\* when it fails or raises, no call is ever made for the entries below it
C1_ParentBeforeChild ==
    \A n \in Present :
        (NodeParent(n) # Root /\ up[n].st # "none") => up[NodeParent(n)].st = "ok"

\* a file of a subdirectory is being upserted below the page of the
\* subdirectory, and a sibling subdirectory failed and was not entered
C1_Witness ==
    /\ \E n \in Present :
          /\ NodeParent(n) # Root /\ NodeKind(n) = "file"
          /\ up[n].st = "ok"
          /\ up[NodeParent(n)].st = "ok"
          /\ up[n].parent = up[NodeParent(n)].result.page_id
    /\ \E d \in Present :
          /\ NodeKind(d) = "dir" /\ up[d].st = "failed"
          /\ Children(Present, d) # {}
          /\ \A n \in Children(Present, d) : up[n].st = "none"
    /\ run = "returned"

\* C8: two distinct entries of the local tree never have the same canonical
\* title, so no two createPage calls of a run are given the same title
C8_TitlesInjective ==
    /\ \A m, n \in Present :
          m # n => CanonicalTitle(m, fs.sep) # CanonicalTitle(n, fs.sep)
    /\ \A m, n \in Present :
          (m # n /\ up[m].st # "none" /\ up[n].st # "none") => up[m].title # up[n].title

\* two files of the same name in different folders were both upserted
C8_Witness ==
    \E m, n \in Present :
        /\ m # n /\ NodeName(m) = NodeName(n)
        /\ up[m].st = "ok" /\ up[n].st = "ok"
        /\ up[m].title # up[n].title

\* the calls of _stats issued so far that satisfy the test
CallsWhere(Test(_)) == Cardinality({k \in 1..Len(agg.calls) : Test(agg.calls[k])})

IsSuccessCall(call) == call.kind = "add_success"
IsErrorCall(call) == call.kind = "add_error"
IsCreatedCall(call) == call.kind = "add_success" /\ call.operation = "created"
IsUpdatedCall(call) == call.kind = "add_success" /\ call.operation = "updated"
IsUntaggedCall(call) == call.kind = "add_success" /\ call.operation = "none"

AllStatCallsReturned == \A t \in StatThreads : agg.th[t].pc = "idle"

\* C11: for every interleaving of add_success and add_error calls, once all
\* calls have returned, success_count is the number of add_success calls, the
\* error list holds one element per add_error call (the one it was given),
\* created_count and updated_count are the numbers of calls so tagged, and
\* success_count = created_count + updated_count when every success is tagged
C11_NoLostUpdates ==
    AllStatCallsReturned =>
        /\ stats.success_count = CallsWhere(IsSuccessCall)
        /\ Len(stats.errors) = CallsWhere(IsErrorCall)
        /\ \A k \in 1..Len(agg.calls) :
              IsErrorCall(agg.calls[k]) =>
                 Cardinality({j \in 1..Len(stats.errors) :
                                 stats.errors[j] = agg.calls[k].error_info}) = 1
        /\ stats.created_count = CallsWhere(IsCreatedCall)
        /\ stats.updated_count = CallsWhere(IsUpdatedCall)
        /\ CallsWhere(IsUntaggedCall) = 0 =>
              stats.success_count = stats.created_count + stats.updated_count

\* two successes and an error were recorded by calls of which one was made
\* while another thread held the lock
C11_Witness ==
    /\ AllStatCallsReturned
    /\ agg.waited
    /\ stats.success_count = 2 /\ stats.created_count = 1 /\ stats.updated_count = 1
    /\ Len(stats.errors) = 1

Attempted == {n \in Present : up[n].st # "none"}

\* C12 as stated: at the end of a run every file or directory for which an
\* upsert was attempted has contributed exactly one record to _stats, so
\* success_count + len(errors) is the number of attempted entries, also when
\* an upsert ended in a raised exception
C12_OneOutcomePerAttempt ==
    run = "returned" =>
        stats.success_count + Len(stats.errors) = Cardinality(Attempted)

RECURSIVE IsBelow(_, _)
\* entry n lies in the subtree below directory d
IsBelow(n, d) ==
    /\ NodeParent(n) # Root
    /\ (NodeParent(n) = d \/ IsBelow(NodeParent(n), d))

Subtree(d) == {n \in Present : IsBelow(n, d)}

ErrorsOf(n) == {k \in 1..Len(stats.errors) : stats.errors[k].path = n}

RECURSIVE AncestorsOk(_)
\* every directory above entry n got its page
AncestorsOk(n) ==
    NodeParent(n) = Root \/ (up[NodeParent(n)].st = "ok" /\ AncestorsOk(NodeParent(n)))

MarkdownFiles == {n \in Present : n \in FilesOf(Present, NodeParent(n), fs.sep)}

C15_ExpectedSetContents ==
    walk.pc = "done" =>
        /\ walk.expected_pages =
              {CanonicalTitle(n, fs.sep) :
                  n \in {m \in fs.tree :
                            \/ NodeKind(m) = "dir"
                            \/ /\ NodeKind(m) = "file"
                               /\ EndsWith(LowerPath(NodeName(m)), <<".", "m", "d">>)}}
        /\ \A n \in fs.tree :
              NodeKind(n) \in {"linkfile", "linkdir"} =>
                 CanonicalTitle(n, fs.sep) \notin walk.expected_pages

\* what the code computes: buildExpectedPagesSet returns the canonical titles of
\* every directory under the root (the empty ones included) and of every
\* file whose name ends in '.md' in any case, a symbolic link counting as a
\* directory when it points to one and as a file otherwise; it holds no title
\* of a file whose name does not end in '.md'
C15_ExpectedSetWithLinks ==
    walk.pc = "done" =>
        /\ walk.expected_pages =
              {CanonicalTitle(n, fs.sep) :
                  n \in {m \in fs.tree :
                            \/ NodeKind(m) \in {"dir", "linkdir"}
                            \/ /\ NodeKind(m) \in {"file", "linkfile"}
                               /\ EndsWith(LowerPath(NodeName(m)), <<".", "m", "d">>)}}
        /\ \A n \in fs.tree :
              (/\ NodeKind(n) \in {"file", "linkfile"}
               /\ ~EndsWith(LowerPath(NodeName(n)), <<".", "m", "d">>)) =>
                 CanonicalTitle(n, fs.sep) \notin walk.expected_pages

\* the set was built for a tree with an empty directory, a file b/a.MD, a
\* file that is no markdown file and a symbolic link
C15_Witness ==
    /\ walk.pc = "done"
    /\ \E d \in fs.tree : NodeKind(d) = "dir" /\ Children(fs.tree, d) = {}
    /\ \E n \in fs.tree :
          /\ NodeKind(n) = "file" /\ NodeParent(n) # Root
          /\ NodeName(n) # LowerPath(NodeName(n))
          /\ CanonicalTitle(n, fs.sep) \in walk.expected_pages
    /\ \E n \in fs.tree :
          NodeKind(n) = "file" /\ CanonicalTitle(n, fs.sep) \notin walk.expected_pages
    /\ \E n \in fs.tree :
          NodeKind(n) = "linkfile" /\ CanonicalTitle(n, fs.sep) \in walk.expected_pages

\* the local tree {a.md, b/, b/c.md}
ScenarioTree == {1, 2, 6}

\* no request to the page store failed and no file operation raised
NoFault == ~fs.faults /\ \A n \in Present : up[n].st # "raised" /\ task[n] # "raised"

PageIdOf(n) == up[n].result.page_id

\* the titles "a.md", "b" and "b/c.md"
ScenarioTitles ==
    {<<"a", ".", "m", "d">>, <<"b">>, <<"b", "/", "c", ".", "m", "d">>}

\* C16: for the local tree {a.md, b/, b/c.md} and an empty remote store (and a
\* store that answers every request), a run ends with 3 successes, all of
\* operation 'created', and no error; the page of b is created before the
\* page of b/c.md; the expected set is {"a.md", "b", "b/c.md"}
C16_FreshPublish ==
    /\ (fs.tree = ScenarioTree /\ fs.remote = "empty" /\ run = "notstarted") =>
          buildExpectedPagesSet(fs.tree, fs.sep) = ScenarioTitles
    /\ (fs.tree = ScenarioTree /\ fs.remote = "empty" /\ NoFault) =>
          /\ run # "raised"
          /\ stats.errors = <<>>
          /\ \A n \in ScenarioTree : up[n].st = "ok" => up[n].result.operation = "created"
          /\ up[6].st # "none" =>
                /\ up[1].st = "ok"
                /\ PageIdOf(1) \in DOMAIN pages
                /\ pages[PageIdOf(1)].title = FullTitle(<<"b">>)
          /\ up[6].st = "ok" => PageIdOf(1) < PageIdOf(6)
          /\ run = "returned" =>
                /\ \A n \in ScenarioTree : up[n].st = "ok"
                /\ stats.success_count = 3 /\ stats.created_count = 3
                /\ stats.updated_count = 0
                /\ {pages[id].title : id \in DOMAIN pages}
                      = {FullTitle(t) : t \in ScenarioTitles}

\* the run on {a.md, b/, b/c.md} has returned with three pages created
C16_Witness ==
    /\ fs.tree = ScenarioTree /\ fs.remote = "empty" /\ NoFault
    /\ run = "returned"
    /\ stats.created_count = 3
    /\ Cardinality(DOMAIN pages) = 3

----------------------------------------------------------------------------
(* main.py: the driving script. Lines 24-37 list the managed pages, delete   *)
(* them all and leave with exit code 0; the lines after sys.exit(0) are      *)
(* never reached.                                                            *)

\* lines 29-30: the script calls searchPages
MainStart ==
    /\ mainpc = "start"
    /\ mainpc' = "migration_search"
    /\ sp' = StartSearch(pages)
    /\ UNCHANGED <<pages, nextId, dp, rc, upsertVars, publishVars>>

\* line 31: searchPages has returned, the script calls deletePages on the list
MainListed ==
    /\ mainpc = "migration_search" /\ sp.pc = "done"
    /\ mainpc' = "migration_delete"
    /\ dp' = StartDelete(sp.foundPages)
    /\ UNCHANGED <<pages, nextId, sp, rc, upsertVars, publishVars>>

\* lines 32-37: deletePages has returned and the script exits with code 0; or
\* the exception of deletePages ends the script
MainDeleted ==
    /\ mainpc = "migration_delete" /\ dp.pc \in {"done", "raised"}
    /\ mainpc' = IF dp.pc = "done" THEN "exit0" ELSE "crashed"
    /\ UNCHANGED <<pages, nextId, sp, dp, rc, upsertVars, publishVars>>

InitMain ==
    /\ \E n \in 0..MaxRemote : pages = ManagedStore(n) /\ nextId = FirstPageId + n
    /\ callers = [c \in Clients |-> IdleClient] /\ last = NoCall /\ ncalls = 0
    /\ sp = IdleSearch /\ dp = IdleDelete /\ rc = IdleCleanup
    /\ mainpc = "start"
    /\ PublishUnused

NextMain ==
    \/ MainStart
    \/ SearchPagesStep
    \/ MainListed
    \/ DeletePagesStep
    \/ MainDeleted

SpecMain == InitMain /\ [][NextMain]_vars

----------------------------------------------------------------------------
(* Claims about the reconciler, checked under SpecReconcile and SpecMain *)

Range(seq) == {seq[k] : k \in 1..Len(seq)}

\* the listing was complete and every title request was answered with the title
RetrievalComplete == sp.complete /\ \A f \in Range(rc.fetched) : f.ok

\* R: the managed pages the call works on; its orphans: the pages of R whose
\* recovered title is not in the expected set
RemoteSet == Range(rc.all_pages)
OrphansOfRemoteSet ==
    {f.id : f \in {g \in Range(rc.fetched) : BaseTitle(g.title) \notin rc.expected}}
DeleteCallIds == {c.id : c \in Range(dp.calls)}

\* C3 as stated: for every expected set and every non-empty set R of managed
\* pages (listed completely, every title fetched), once the guard has
\* decided, cleanupOrphanPages returns: if the orphans are more than a fifth
\* of R it returns skipped=True and no delete call was issued; otherwise
\* (exactly a fifth included) one delete call was issued for each orphan and
\* for no other page, and it returns the number of orphans as deleted_count.
C3_SafetyGuard ==
    (rc.pc \in {"done", "raised"} /\ RetrievalComplete /\ RemoteSet # {}) =>
        IF Cardinality(OrphansOfRemoteSet) * 5 > Cardinality(RemoteSet)
        THEN /\ rc.pc = "done"
             /\ rc.result.skipped = "True"
             /\ rc.result.deleted_count = 0
             /\ dp.calls = <<>>
        ELSE /\ rc.pc = "done"
             /\ rc.result.skipped # "True"
             /\ DeleteCallIds = OrphansOfRemoteSet
             /\ Len(dp.calls) = Cardinality(OrphansOfRemoteSet)
             /\ rc.result.deleted_count = Cardinality(OrphansOfRemoteSet)

\* C4 as stated: in every execution, once the pages are identified, a managed
\* remote page is in the orphan set if and only if its title with the suffix
\* stripped is absent from the expected set, and no delete call is issued for
\* a page whose recovered title is in the expected set.
C4_OrphanIffTitleAbsent ==
    /\ rc.pc = "guard" =>
          \A id \in Managed(pages) :
              (id \in Range(rc.orphan_ids)) <=>
                  (BaseTitle(pages[id].title) \notin rc.expected)
    /\ \A c \in Range(dp.calls) :
          \E f \in Range(rc.fetched) :
              f.id = c.id /\ f.ok /\ BaseTitle(f.title) \notin rc.expected

\* C4 amended: a managed remote page is in the orphan set if and only if the
\* listing returned it, its title request succeeded and its title with the
\* suffix stripped is absent from the expected set; no delete call is issued
\* for a page whose recovered title is in the expected set.
C4_OrphanIffFetchedTitleAbsent ==
    /\ rc.pc = "guard" =>
          \A id \in Managed(pages) :
              (id \in Range(rc.orphan_ids)) <=>
                  /\ \E f \in Range(rc.fetched) : f.id = id /\ f.ok
                  /\ BaseTitle(pages[id].title) \notin rc.expected
    /\ \A c \in Range(dp.calls) :
          \E f \in Range(rc.fetched) :
              f.id = c.id /\ f.ok /\ BaseTitle(f.title) \notin rc.expected

\* C4 witness: a page whose title is absent from the expected set was deleted
\* as orphan, another one of that kind whose title request failed was left,
\* and so was a page whose title is expected
C4_Witness ==
    /\ rc.pc = "done"
    /\ \E c \in Range(dp.calls) : c.res = "204"
    /\ \E f \in Range(rc.fetched) :
          /\ ~f.ok /\ f.id \in DOMAIN pages
          /\ BaseTitle(pages[f.id].title) \notin rc.expected
    /\ \E f \in Range(rc.fetched) : f.ok /\ BaseTitle(f.title) \in rc.expected

\* C21: with a store whose calls all return (or raise), every run of
\* publishFolder ends, by return or by exception, whatever the depth of the
\* tree: no worker of the pool is ever held by a directory
C21_RunTerminates == <>(run \in {"returned", "raised"})

\* the run on the chain b/d/p/q/x.md, four directories deep, has returned:
\* the four container pages and the page of x.md were published
C21_Witness ==
    /\ fs.tree = DeepTree /\ run = "returned"
    /\ task[15] = "done" /\ up[15].st = "ok"
    /\ stats.success_count = 5

\* C23: every upsert of an entry directly inside directory D is called with
\* the page id that the successful upsert of D returned, and every upsert of
\* an entry of the publish root with no parent id; a page created for the
\* entry lies below the page of D, or below the configured root page
C23_ChildrenUnderParentId ==
    \A n \in Present :
        up[n].st # "none" =>
           /\ IF NodeParent(n) = Root
              THEN up[n].parent = NoneId
              ELSE /\ up[NodeParent(n)].st = "ok"
                   /\ up[NodeParent(n)].result.success
                   /\ up[n].parent = up[NodeParent(n)].result.page_id
           /\ (up[n].st = "ok" /\ up[n].result.operation = "created") =>
                 /\ up[n].result.page_id \in DOMAIN pages
                 /\ pages[up[n].result.page_id].parent
                       = (IF NodeParent(n) = Root THEN ConfigParentPageId
                          ELSE up[NodeParent(n)].result.page_id)

\* a page was created for an entry of the root, for a directory and for a
\* file two directories down, each below the page of its directory
C23_Witness ==
    /\ run = "returned"
    /\ \E n \in Present :
          /\ NodeParent(n) # Root /\ NodeParent(NodeParent(n)) # Root
          /\ is_file(n)
          /\ up[n].st = "ok" /\ up[n].result.operation = "created"
          /\ up[NodeParent(n)].result.operation = "created"
    /\ \E n \in Present :
          NodeParent(n) = Root /\ is_file(n) /\ up[n].st = "ok"

DirUpsertsInProgress == {d \in Present : is_dir(d) /\ up[d].st = "running"}

\* C22: at every moment at most 4 file upserts are in progress; the tasks of
\* the pool are upserts of markdown files only; at most one upsert of a
\* directory is in progress, that of the directory the calling thread is at,
\* and the page of its parent directory exists already
C22_ConcurrencyBound ==
    /\ Cardinality({f \in Present : task[f] = "running"}) <= 4
    /\ \A n \in Present :
          task[n] # "none" =>
             /\ is_file(n) /\ ~is_dir(n)
             /\ EndsWith(LowerPath(NodeName(n)), <<".", "m", "d">>)
    /\ \A k \in 1..Len(queue) : is_file(queue[k].file_entry)
    /\ Cardinality(DirUpsertsInProgress) <= 1
    /\ \A d \in DirUpsertsInProgress :
          /\ stack # <<>> /\ Top.cur = d /\ Top.folder = NodeParent(d)
          /\ task[d] = "none"
          /\ NodeParent(d) # Root => up[NodeParent(d)].st = "ok"

\* four of the five files of a folder are being upserted, the fifth waits in
\* the queue of the pool
C22_Witness ==
    /\ fs.tree = WideTree
    /\ Cardinality({f \in Present : task[f] = "running"}) = 4
    /\ Len(queue) = 1

RECURSIVE BelowFailed(_)
\* a directory above entry n was refused its page: n is skipped
BelowFailed(n) ==
    /\ NodeParent(n) # Root
    /\ (up[NodeParent(n)].st = "failed" \/ BelowFailed(NodeParent(n)))

InFlight == {n \in Present : task[n] \in {"queued", "running"}}

\* C20: a run of publishFolder creates one pool, in the root call (the nested
\* calls create none); the pool is shut down once, when the root call is
\* left, by return or by exception; at that time no call of publishFolder is
\* in progress and no task is queued or running, and on a return every
\* directory was traversed (or skipped below a failed directory) and every
\* file task submitted has completed
C20_PoolLifecycle ==
    /\ run = "notstarted" => pool = NoPool
    /\ run = "running" =>
          /\ pool = [created |-> 1, shutdown |-> 0, live |-> TRUE]
          /\ stack # <<>>
          /\ stack[1].is_root
          /\ \A k \in 2..Len(stack) : ~stack[k].is_root
    /\ run \in {"returned", "raised"} =>
          pool = [created |-> 1, shutdown |-> 1, live |-> FALSE]
    /\ pool.shutdown > 0 =>
          /\ stack = <<>> /\ queue = <<>> /\ InFlight = {}
          /\ run = "returned" =>
                /\ \A d \in Present :
                      NodeKind(d) = "dir" =>
                         up[d].st \in {"ok", "failed"} \/ BelowFailed(d)
                /\ \A f \in MarkdownFiles :
                      AncestorsOk(f) => task[f] \in {"done", "raised"}

\* createPage raised for the directory b/d, in a nested call: the exception
\* left both calls and the pool was shut down once
C20_Witness ==
    /\ run = "raised"
    /\ pool = [created |-> 1, shutdown |-> 1, live |-> FALSE]
    /\ \E d \in Present : up[d].st = "raised" /\ NodeParent(d) # Root

\* the positions of the search requests in the request log of a call
SearchesOf(log) == {k \in 1..Len(log) : log[k].op = "search"}

MissesBefore(log, k) ==
    {j \in SearchesOf(log) : j < k /\ log[j].res = "none"}

\* C18: a call of createPage issues at most 3 search requests; the first is
\* issued at once, the second after a wait of 2s and the third after a wait
\* of 4s; after the first search that finds the page no further search (and
\* no creation) is issued and the update goes to the page found; a creation
\* is attempted only after 3 searches that found nothing
C18_SearchRetryBound ==
    \A c \in Clients :
        LET log == callers[c].r.log
        IN  /\ Cardinality(SearchesOf(log)) <= 3
            /\ \A k \in SearchesOf(log) :
                  /\ log[k].arg = Cardinality({j \in SearchesOf(log) : j < k})
                  /\ log[k].arg = 0 => k = 1
                  /\ log[k].arg > 0 =>
                        /\ log[k - 1].op = "sleep"
                        /\ log[k - 1].arg = 2 * log[k].arg
                        /\ log[k - 2].op = "search"
                  /\ log[k].res = "found" =>
                        /\ \A j \in (k + 1)..Len(log) :
                              log[j].op \notin {"search", "sleep", "create", "direct"}
                        /\ k < Len(log) =>
                              log[k + 1] = Req("update", callers[c].r.found.id,
                                               log[k + 1].res)
                        /\ callers[c].r.found.id \in
                              PageIdsWithTitle(pages, FullTitle(callers[c].r.title))
            /\ \A k \in 1..Len(log) :
                  log[k].op = "create" => Cardinality(MissesBefore(log, k)) = 3
            /\ callers[c].r.pc = "create" =>
                  Cardinality(MissesBefore(log, Len(log) + 1)) = 3

\* one call found nothing in three searches, waited 2s and 4s and attempted
\* the creation; another found the page at its second search and updated it
C18_Witness ==
    \E c, d \in Clients :
        LET log == callers[c].r.log
            other == callers[d].r.log
        IN  /\ Len(log) = 6 /\ log[6].op = "create"
            /\ log[2] = Req("sleep", 2, "ok") /\ log[4] = Req("sleep", 4, "ok")
            /\ Cardinality(MissesBefore(log, 6)) = 3
            /\ Len(other) = 4
            /\ other[1] = Req("search", 0, "none")
            /\ other[3] = Req("search", 1, "found")
            /\ other[4].op = "update"

\* the result is a failed outcome that carries a reason and a status code
FailedWithReasonAndStatus(result) ==
    /\ ~result.raised /\ ~result.success
    /\ result.error # <<>>
    /\ result.status_code # "absent"

\* C19 as stated: an update is issued with the version found plus 1; a
\* rejected update, or a creation failure that is not of the duplicate-title
\* class, ends the call: it is the last request of the call, and the call
\* returns a failed outcome with the reason and the status code
C19_FailuresNotRetried ==
    /\ [](\A c \in Clients :
            LET r == callers[c].r
            IN  \A k \in 1..Len(r.log) :
                   (\/ r.log[k].op = "update" /\ r.log[k].res = "fail"
                    \/ r.log[k].op = "create" /\ r.log[k].res \in {"fail", "raise"}) =>
                       /\ k = Len(r.log)
                       /\ r.pc = "done"
                       /\ FailedWithReasonAndStatus(r.result))
    /\ [][\A c \in Clients :
            (/\ callers[c].r.pc = "update" /\ callers'[c].r.pc = "done"
             /\ callers'[c].r.result.success) =>
                /\ callers[c].r.found.id \in DOMAIN pages
                /\ pages'[callers[c].r.found.id].version
                      = callers[c].r.found.version + 1]_vars

\* the call works on the store {a.md, old.md} with the expected set {a.md}
OneOrphanScenario ==
    rc.pc # "idle" /\ rc.expected = {AMd} /\ pages = OneOrphanStore

OldMdId == CHOOSE id \in DOMAIN OneOrphanStore : OneOrphanStore[id].title = FullTitle(OldMd)

OrphanBaseTitles == {o.base_title : o \in Range(rc.result.orphans)}

\* the listing returned the page old.md and the request for its title succeeded
OldMdIdentified ==
    \E f \in Range(rc.fetched) : f.id = OldMdId /\ f.ok

\* C17 as stated: with the managed pages a.md and old.md in the store and the
\* expected set {a.md} (the listing complete, every title fetched),
\* cleanupOrphanPages returns deleted_count = 1 with old.md among the
\* orphans, and the page old.md is deleted
C17_OneOrphanDeleted ==
    (/\ rc.pc \in {"done", "raised"} /\ rc.expected = {AMd}
     /\ RetrievalComplete /\ RemoteSet = DOMAIN OneOrphanStore
     /\ \A f \in Range(rc.fetched) : f.title = OneOrphanStore[f.id].title) =>
        /\ rc.pc = "done"
        /\ rc.result.deleted_count = 1
        /\ OldMd \in OrphanBaseTitles
        /\ OldMdId \notin DOMAIN pages

\* C17 amended: with the managed pages a.md and old.md in the store and the
\* expected set {a.md}, cleanupOrphanPages issues no delete call and leaves
\* the store as it is; it returns deleted_count = 0, and when the listing
\* returned the page old.md and the request for its title succeeded, it
\* returns skipped = True with old.md as the one orphan (one orphan is more
\* than 20% of the pages listed)
C17_OneOrphanKept ==
    /\ [](OneOrphanScenario =>
            /\ rc.pc # "raised" /\ dp.calls = <<>>
            /\ rc.pc = "done" =>
                  /\ rc.result.deleted_count = 0
                  /\ OldMdIdentified =>
                        /\ rc.result.skipped = "True"
                        /\ OrphanBaseTitles = {OldMd})
    /\ [][OneOrphanScenario => pages' = pages /\ rc'.expected = rc.expected]_vars

\* the call on {a.md, old.md} has returned skipped = True with old.md as the
\* one orphan, both pages still in the store
C17_Witness ==
    /\ OneOrphanScenario /\ rc.pc = "done" /\ RetrievalComplete
    /\ RemoteSet = DOMAIN OneOrphanStore
    /\ rc.result.skipped = "True" /\ rc.result.deleted_count = 0
    /\ OrphanBaseTitles = {OldMd}
    /\ OldMdId \in DOMAIN pages

\* C9 as stated: the deleted_count that cleanupOrphanPages returns after
\* deleting is the number of delete calls the store answered with success.
C9_DeletedCountIsConfirmedCount ==
    (rc.pc = "done" /\ dp.pc = "done") =>
        rc.result.deleted_count
            = Cardinality({k \in 1..Len(dp.calls) : dp.calls[k].res = "204"})

\* C10 as stated: when deletePages is over, a delete call has been issued for
\* every page of its list, whether earlier calls failed with an error status
\* or a failed network call.
C10_BestEffortDeletion ==
    dp.pc \in {"done", "raised"} =>
        \A k \in 1..Len(dp.list) : \E c \in Range(dp.calls) : c.id = dp.list[k]

\* C24 as stated: for every canonical title t, the base title that
\* cleanupOrphanPages recovers from the display title createPage built for t
\* (t, two spaces, the search pattern) is t.
C24_SuffixRoundTrip ==
    trip.pc = "recovered" => trip.base_title = trip.title

\* pagesPublisher lines 41-45, the names main.py imports at line 7:
\* publish_errors is the list object of _stats, the three counts are integers
\* bound once at import and never assigned again
publish_errors == stats.errors
success_count == 0
created_count == 0
updated_count == 0

\* main.py lines 63-66: the four numbers of the summary report
SummaryReport ==
    [successful |-> success_count, created |-> created_count,
     updated |-> updated_count, failed |-> Len(publish_errors)]

\* C25 as stated: after the run the successful, created and updated counts
\* of the summary report are the counts the aggregator accumulated, and the
\* failed count is the number of errors recorded.
C25_SummaryCountsExact ==
    run = "returned" =>
        /\ SummaryReport.successful = stats.success_count
        /\ SummaryReport.created = stats.created_count
        /\ SummaryReport.updated = stats.updated_count
        /\ SummaryReport.failed = Len(stats.errors)

\* C26: when every list request succeeds, searchPages follows the next link
\* until a response carries none and returns the ids of all batches, in the
\* order received and without dropping any: while the listing runs, the ids
\* found followed by the ids the store has still to send are the managed
\* pages in the order of the store, a request that succeeds moves its batch
\* from the second to the end of the first and the loop goes on exactly when
\* ids remain, and the list returned after a response without a next link is
\* the whole listing. No request follows that response.
C26_PaginatedListingComplete ==
    /\ []((rc.pc = "list" /\ (sp.pc = "run" \/ sp.complete)) =>
            sp.foundPages \o sp.rest = Ascending(Managed(pages)))
    /\ [](sp.complete =>
            /\ sp.pc = "done" /\ sp.rest = <<>> /\ sp.requests >= 1
            /\ rc.pc = "list" => sp.foundPages = Ascending(Managed(pages)))
    /\ [][(sp.pc = "run" /\ sp'.requests = sp.requests + 1
                /\ (sp'.pc = "run" \/ sp'.complete)) =>
            /\ \E n \in 0..Len(sp.rest) :
                  /\ sp'.foundPages = sp.foundPages \o SubSeq(sp.rest, 1, n)
                  /\ sp'.rest = SubSeq(sp.rest, n + 1, Len(sp.rest))
            /\ sp'.pc = "run" <=> sp'.rest # <<>>]_vars
    /\ [][sp.pc = "done" => sp' = sp]_vars

\* a listing of five managed pages was returned whole after three requests
C26_Witness ==
    /\ rc.pc = "list" /\ sp.complete /\ sp.requests = 3
    /\ Len(sp.foundPages) = 5 /\ sp.foundPages = Ascending(Managed(pages))

\* searchPages has returned the empty list to cleanupOrphanPages
EmptyListing == rc.pc # "idle" /\ sp.pc = "done" /\ sp.foundPages = <<>>

\* C27: when the listing returns no managed page, whatever the expected set,
\* cleanupOrphanPages returns deleted_count = 0 with an empty orphan list;
\* it requests no title, never reaches the safety check (no orphan ratio is
\* computed), issues no delete call and leaves the store as it is.
C27_EmptyRemoteNoOp ==
    /\ [](EmptyListing =>
            /\ rc.pc \in {"list", "done"}
            /\ rc.fetched = <<>> /\ dp = IdleDelete
            /\ rc.pc = "done" =>
                  /\ rc.result.returned
                  /\ rc.result.deleted_count = 0
                  /\ rc.result.orphans = <<>>)
    /\ [][EmptyListing => (pages' = pages /\ rc'.pc \in {"list", "done"})]_vars

\* the call has returned on an empty listing with a non-empty expected set
C27_Witness ==
    /\ EmptyListing /\ sp.complete /\ rc.pc = "done"
    /\ rc.expected # {} /\ rc.result.deleted_count = 0
    /\ rc.result.orphans = <<>> /\ pages = EmptyStore

\* the call has returned on an empty listing with the empty expected set
C27_WitnessNothingExpected ==
    /\ EmptyListing /\ sp.complete /\ rc.pc = "done"
    /\ rc.expected = {} /\ rc.result.deleted_count = 0

\* the canonical titles for which publishFolder has issued an upsert
UpsertedTitles == {CanonicalTitle(n, fs.sep) : n \in Attempted}

\* C28 as stated: for every local tree, with entries that are files,
\* directories or symbolic links, on a run in which every file is read and
\* every upsert succeeds, the canonical titles for which publishFolder
\* issues an upsert are the titles buildExpectedPagesSet returns for the
\* same root.
C28_PublishedEqualsExpected ==
    (run = "returned" /\ NoFault /\ \A n \in Attempted : up[n].st = "ok") =>
        UpsertedTitles = buildExpectedPagesSet(fs.tree, fs.sep)

\* the same on the trees without symbolic links
C28_PublishedEqualsExpectedNoLinks ==
    (/\ run = "returned" /\ NoFault /\ \A n \in Attempted : up[n].st = "ok"
     /\ \A n \in fs.tree : NodeKind(n) \in {"dir", "file"}) =>
        UpsertedTitles = buildExpectedPagesSet(fs.tree, fs.sep)

\* the processing of entry n is over: its page was upserted or refused, its
\* task has ended, or it is skipped below a directory that was refused
Settled(n) ==
    IF is_dir(n) THEN up[n].st \in {"ok", "failed"} \/ BelowFailed(n)
    ELSE n \in MarkdownFiles => (task[n] \in {"done", "raised"} \/ BelowFailed(n))

\* the whole processing of subdirectory d is over
FullyProcessed(d) ==
    /\ up[d].st \in {"ok", "failed"}
    /\ \A n \in Subtree(d) : Settled(n)

\* the directories whose call of publishFolder is in progress
OpenFolders == {stack[k].folder : k \in 1..Len(stack)}

\* C29: a file of a directory is submitted only when the whole processing of
\* every subdirectory of that directory is over (its page, the recursion and
\* every file task below it); a call of publishFolder that has returned has
\* waited for all the files of its directory; hence the file tasks queued or
\* running at one moment belong to one directory, the one the calling thread
\* is at, and no upsert of a directory is in progress meanwhile.
C29_SubdirectoriesBeforeFiles ==
    /\ \A f \in Present :
          task[f] # "none" =>
             \A d \in DirsOf(Present, NodeParent(f)) : FullyProcessed(d)
    /\ \A d \in Present :
          (is_dir(d) /\ up[d].st = "ok" /\ d \notin OpenFolders /\ run # "raised") =>
             \A f \in FilesOf(Present, d, fs.sep) : task[f] \in {"done", "raised"}
    /\ run = "returned" =>
          \A f \in FilesOf(Present, Root, fs.sep) : task[f] \in {"done", "raised"}
    /\ \A f \in InFlight :
          /\ stack # <<>> /\ NodeParent(f) = Top.folder
          /\ Top.dirsLeft = {} /\ Top.cur = Root
    /\ \A f \in InFlight : \A g \in InFlight : NodeParent(f) = NodeParent(g)
    /\ InFlight # {} => DirUpsertsInProgress = {}

\* in the tree {b, b/d, b/d/a.md, b/c.md} the file b/c.md is being upserted
\* after the page of b/d was upserted and the task of b/d/a.md has ended
C29_Witness ==
    /\ fs.tree = {1, 4, 5, 6}
    /\ task[6] = "running" /\ up[6].st = "running"
    /\ up[4].st = "ok" /\ task[5] = "done" /\ up[5].st = "ok"
    /\ 4 \notin OpenFolders /\ Top.folder = 1

\* the search request answered with an error status, and with no result
ErrorAnswer == [kind |-> "err", id |-> NoneId]
EmptyAnswer == [kind |-> "empty", id |-> NoneId]

\* C30: a search request of findPageByTitle that fails (error status or
\* exception) is treated exactly as one that finds no page, on every
\* attempt; when all 3 search requests of a call have failed, findPageByTitle
\* has returned None and createPage goes on to a creation request: the call
\* does not end before it. No search error becomes an outcome by itself: a
\* call returns a failure (the only thing the callers record as an error)
\* only after an update or creation request that was not accepted.
C30_SearchErrorsAreNotFound ==
    \A c \in Clients :
        LET r == callers[c].r
        IN  /\ r.pc = "search" =>
                  /\ findPageByTitle(r, pages, ErrorAnswer)
                        = findPageByTitle(r, pages, EmptyAnswer)
                  /\ r.found = NoPage
            /\ callers[c].search_errors = max_retries =>
                  /\ r.pc \in {"create", "direct", "update", "done"}
                  /\ Cardinality(SearchesOf(r.log)) = max_retries
                  /\ \A k \in SearchesOf(r.log) : r.log[k].res = "none"
                  /\ r.pc = "create" => r.found = NoPage /\ Len(r.log) = 5
                  /\ r.pc # "create" => (Len(r.log) >= 6 /\ r.log[6].op = "create")
            /\ (r.pc = "done" /\ ~r.result.success) =>
                  \E k \in 1..Len(r.log) :
                     /\ r.log[k].op \in {"update", "create"}
                     /\ r.log[k].res # "ok"

\* all three searches of a call for a page that exists failed; the call went
\* on to a creation request and has returned
C30_Witness ==
    \E c \in Clients :
        /\ callers[c].search_errors = 3
        /\ callers[c].pre.id # NoneId
        /\ callers[c].r.pc = "done"
        /\ callers[c].r.log[6].op = "create"

====
